---- MODULE Spec2Model ----
(***************************************************************************)
(* A model of package kvt (kvt.go): the Key|Value|Timestamp store, its     *)
(* timestamp-gated writes, Purge, Absorb, Hash, and the JSON codec of      *)
(* ValueTimestamp.                                                         *)
(*                                                                         *)
(* Go strings are sequences of byte codes (<<65>> is "A").  A *string is   *)
(* a sequence of length 0 (nil) or 1 (a pointer to that string).  A        *)
(* *ValueTimestamp is an address of the heap, 0 for nil; a Store is a map  *)
(* from keys to such addresses, so two stores can hold the same            *)
(* ValueTimestamp object, as they do after Absorb.                         *)
(***************************************************************************)
EXTENDS Integers, Sequences, FiniteSets, TLC

\* Largest timestamp the calls of the model pass (the smallest is 0).
MaxTimestamp == 2

\* The stores of the model: two Store values held by the caller.
StoreSeq == <<"store1", "store2">>
StoreNames == {StoreSeq[i] : i \in DOMAIN StoreSeq}

\* Keys "A" and "B".
KeySeq == <<(<<65>>), (<<66>>)>>
Keys == {KeySeq[i] : i \in DOMAIN KeySeq}

\* The values written: "one" and "two".
one == <<111, 110, 101>>
two == <<116, 119, 111>>
Values == {one, two}

Timestamps == 0..MaxTimestamp

\* Purge cutoffs: every timestamp, and one past the largest.
Cutoffs == 0..(MaxTimestamp + 1)

\* The nil *ValueTimestamp, and the addresses of allocated ones.  Twice the
\* number of map slots: the live entries, and room for copies of them.
NilAddr == 0
Addrs == 1..(2 * Cardinality(StoreNames) * Cardinality(Keys))

\* type ValueTimestamp struct { Value *string; Timestamp int64 }
ValueTimestamp(value, timestamp) == [Value |-> value, Timestamp |-> timestamp]

\* The content of a heap cell no store refers to.
ZeroValueTimestamp == ValueTimestamp(<<>>, 0)

VARIABLES
    store,      \* store[s]: the map of Store s, a function from the keys present to addresses
    heap,       \* heap[a]: the ValueTimestamp at address a
    entry,      \* the ValueTimestamp that MarshalJSON is called on
    json,       \* the JSON text: what MarshalJSON returned, or what UnmarshalJSON is given
    vt,         \* the ValueTimestamp that UnmarshalJSON is called on
    err,        \* the error UnmarshalJSON returned: <<>> is nil
    pc,         \* how far the calls of the codec have got
    deleted,    \* deleted[s][key]: the largest timestamp of a DeleteTimestamped that store s accepted for key, -1 when none
    marked,     \* marked[s][key]: the same, of the calls since Purge last removed key from s
    calls       \* calls[p]: the call of goroutine p that runs without a lock

stores == <<store, heap>>
codec == <<entry, json, vt, err, pc>>
history == <<deleted, marked>>
vars == <<store, heap, entry, json, vt, err, pc, deleted, marked, calls>>

\* The place of a store in StoreSeq and of a key in KeySeq.
StoreIndex == [s \in StoreNames |-> CHOOSE j \in DOMAIN StoreSeq : StoreSeq[j] = s]
KeyIndex == [k \in Keys |-> CHOOSE i \in DOMAIN KeySeq : KeySeq[i] = k]

\* The map slots of the model's stores: slot (i, j) is key KeySeq[i] of store
\* StoreSeq[j].
NumSlots == Len(StoreSeq) * Len(KeySeq)
SlotAddr(i, j) == (i - 1) * Len(StoreSeq) + j

\* A program state: the stores and the objects they point to.
State(m, h) == [store |-> m, heap |-> h]

\* store[key] of Go: the address held for key, nil when the key is absent.
Lookup(st, s, key) ==
    IF key \in DOMAIN st.store[s] THEN st.store[s][key] ELSE NilAddr

\* The addresses some store refers to.
RefsOf(st) ==
    UNION {{st.store[s][k] : k \in DOMAIN st.store[s]} : s \in DOMAIN st.store}

\* &ValueTimestamp{...}: a new object, at an address no store refers to: the
\* address of the slot it is made for when that is free, the lowest free
\* address otherwise.
NewAddr(st, s, key) ==
    LET refs == RefsOf(st) IN
    IF /\ s \in StoreNames
       /\ key \in Keys
       /\ SlotAddr(KeyIndex[key], StoreIndex[s]) \notin refs
    THEN SlotAddr(KeyIndex[key], StoreIndex[s])
    ELSE CHOOSE a \in Addrs : a \notin refs /\ \A b \in 1..(a - 1) : b \in refs

\* The garbage collector: an object no store refers to is gone.
Collect(st) ==
    LET refs == RefsOf(st) IN
    State(st.store,
          [a \in Addrs |-> IF a \in refs THEN st.heap[a] ELSE ZeroValueTimestamp])

\* store[key] = nil in place of the assignment: the key is there with no
\* ValueTimestamp.
MapAssignNil(m, key, a) ==
    [k \in (DOMAIN m) \cup {key} |-> IF k = key THEN NilAddr ELSE m[k]]

\* m[key] = a of Go on the map of store s.
MapAssign(m, key, a) ==
    [k \in (DOMAIN m) \cup {key} |-> IF k = key THEN a ELSE m[k]]

\* Get that stores an empty ValueTimestamp under a key it does not find.
GetInserting(st, s, key) ==
    LET valueTimestamp == Lookup(st, s, key) IN
    IF valueTimestamp = NilAddr
    THEN [ret |-> <<>>,
          st |-> State([st.store EXCEPT ![s] = MapAssign(@, key, NewAddr(st, s, key))],
                       st.heap)]
    ELSE IF st.heap[valueTimestamp].Value = <<>>
    THEN [ret |-> <<>>, st |-> st]
    ELSE [ret |-> st.heap[valueTimestamp].Value[1], st |-> st]

\* func (store Store) Get(key string) string
\* The string returned (<<>> is ""), and the state Get leaves.
Get(st, s, key) ==
    LET valueTimestamp == Lookup(st, s, key) IN
    IF valueTimestamp = NilAddr \/ st.heap[valueTimestamp].Value = <<>>
    THEN [ret |-> <<>>, st |-> st]
    ELSE [ret |-> st.heap[valueTimestamp].Value[1], st |-> st]

\* SetTimestamped with <= for <: a set with the timestamp the key has is
\* accepted.
SetTimestampedOnTie(st, s, key, value, timestamp) ==
    LET valueTimestamp == Lookup(st, s, key) IN
    IF valueTimestamp = NilAddr
    THEN LET a == NewAddr(st, s, key) IN
         State([st.store EXCEPT ![s] = MapAssign(@, key, a)],
               [st.heap EXCEPT ![a] = ValueTimestamp(<<value>>, timestamp)])
    ELSE IF st.heap[valueTimestamp].Timestamp <= timestamp
    THEN State(st.store,
               [st.heap EXCEPT ![valueTimestamp] = ValueTimestamp(<<value>>, timestamp)])
    ELSE st

\* SetTimestamped without the timestamp test: the last call wins.
SetTimestampedUngated(st, s, key, value, timestamp) ==
    LET valueTimestamp == Lookup(st, s, key) IN
    IF valueTimestamp = NilAddr
    THEN LET a == NewAddr(st, s, key) IN
         State([st.store EXCEPT ![s] = MapAssign(@, key, a)],
               [st.heap EXCEPT ![a] = ValueTimestamp(<<value>>, timestamp)])
    ELSE State(st.store,
               [st.heap EXCEPT ![valueTimestamp] = ValueTimestamp(<<value>>, timestamp)])

\* SetTimestamped that stores a new ValueTimestamp for an accepted write to a
\* key the store has, and leaves the old object as it was.
SetTimestampedCopying(st, s, key, value, timestamp) ==
    LET valueTimestamp == Lookup(st, s, key) IN
    IF valueTimestamp = NilAddr \/ st.heap[valueTimestamp].Timestamp < timestamp
    THEN LET a == NewAddr(st, s, key) IN
         State([st.store EXCEPT ![s] = MapAssign(@, key, a)],
               [st.heap EXCEPT ![a] = ValueTimestamp(<<value>>, timestamp)])
    ELSE st

\* func (store Store) SetTimestamped(key string, value string, timestamp int64)
SetTimestamped(st, s, key, value, timestamp) ==
    LET valueTimestamp == Lookup(st, s, key) IN
    IF valueTimestamp = NilAddr
    THEN LET a == NewAddr(st, s, key) IN
         State([st.store EXCEPT ![s] = MapAssign(@, key, a)],
               [st.heap EXCEPT ![a] = ValueTimestamp(<<value>>, timestamp)])
    ELSE IF st.heap[valueTimestamp].Timestamp < timestamp
    THEN State(st.store,
               [st.heap EXCEPT ![valueTimestamp] = ValueTimestamp(<<value>>, timestamp)])
    ELSE st

\* DeleteTimestamped with <= for <: a delete with the timestamp the key has
\* is accepted.
DeleteTimestampedOnTie(st, s, key, timestamp) ==
    LET valueTimestamp == Lookup(st, s, key) IN
    IF valueTimestamp = NilAddr
    THEN LET a == NewAddr(st, s, key) IN
         State([st.store EXCEPT ![s] = MapAssign(@, key, a)],
               [st.heap EXCEPT ![a] = ValueTimestamp(<<>>, timestamp)])
    ELSE IF st.heap[valueTimestamp].Timestamp <= timestamp
    THEN State(st.store,
               [st.heap EXCEPT ![valueTimestamp] = ValueTimestamp(<<>>, timestamp)])
    ELSE st

\* func (store Store) DeleteTimestamped(key string, timestamp int64)
DeleteTimestamped(st, s, key, timestamp) ==
    LET valueTimestamp == Lookup(st, s, key) IN
    IF valueTimestamp = NilAddr
    THEN LET a == NewAddr(st, s, key) IN
         State([st.store EXCEPT ![s] = MapAssign(@, key, a)],
               [st.heap EXCEPT ![a] = ValueTimestamp(<<>>, timestamp)])
    ELSE IF st.heap[valueTimestamp].Timestamp < timestamp
    THEN State(st.store,
               [st.heap EXCEPT ![valueTimestamp] = ValueTimestamp(<<>>, timestamp)])
    ELSE st

\* PurgedKeys with <= for <: a deletion marker of the cutoff's timestamp goes.
PurgedKeysOnTie(st, s, cutoff) ==
    {key \in DOMAIN st.store[s] :
        /\ st.heap[st.store[s][key]].Value = <<>>
        /\ st.heap[st.store[s][key]].Timestamp <= cutoff}

\* The keys Purge deletes from store s.
PurgedKeys(st, s, cutoff) ==
    {key \in DOMAIN st.store[s] :
        /\ st.heap[st.store[s][key]].Value = <<>>
        /\ st.heap[st.store[s][key]].Timestamp < cutoff}

\* Purge that also clears the ValueTimestamp objects it discards.
PurgeClearing(st, s, cutoff) ==
    LET gone == PurgedKeys(st, s, cutoff) IN
    Collect(State([st.store EXCEPT ![s] = [k \in (DOMAIN @) \ gone |-> @[k]]],
                  [a \in Addrs |->
                      IF a \in {st.store[s][k] : k \in gone}
                      THEN ZeroValueTimestamp ELSE st.heap[a]]))

\* func (store Store) Purge(cutoff int64)
Purge(st, s, cutoff) ==
    LET gone == PurgedKeys(st, s, cutoff) IN
    Collect(State([st.store EXCEPT ![s] = [k \in (DOMAIN @) \ gone |-> @[k]]],
                  st.heap))

\* Absorbs without the timestamp test: only keys the store lacks are taken.
AbsorbsMissingOnly(st, s, s2, key) == Lookup(st, s, key) = NilAddr

\* Absorbs with <= for <: on equal timestamps store2's object is taken.
AbsorbsOnTie(st, s, s2, key) ==
    LET valueTimestamp == Lookup(st, s, key)
        valueTimestamp2 == st.store[s2][key] IN
    \/ valueTimestamp = NilAddr
    \/ st.heap[valueTimestamp].Timestamp <= st.heap[valueTimestamp2].Timestamp

\* Whether Absorb takes store2's object for key.
Absorbs(st, s, s2, key) ==
    LET valueTimestamp == Lookup(st, s, key)
        valueTimestamp2 == st.store[s2][key] IN
    \/ valueTimestamp = NilAddr
    \/ st.heap[valueTimestamp].Timestamp < st.heap[valueTimestamp2].Timestamp

\* Absorb that deletes a key it holds an older entry for, where it should
\* replace the entry.
AbsorbDeletesOlder(st, s, s2) ==
    Collect(State(
        [st.store EXCEPT ![s] =
            [k \in {x \in (DOMAIN @) \cup DOMAIN st.store[s2] :
                       ~(x \in DOMAIN @ /\ x \in DOMAIN st.store[s2]
                           /\ Absorbs(st, s, s2, x))} |->
                IF k \in DOMAIN @ THEN @[k] ELSE st.store[s2][k]]],
        st.heap))

\* func (store Store) Absorb(store2 Store)
Absorb(st, s, s2) ==
    Collect(State(
        [st.store EXCEPT ![s] =
            [k \in (DOMAIN @) \cup DOMAIN st.store[s2] |->
                IF k \in DOMAIN st.store[s2] /\ Absorbs(st, s, s2, k)
                THEN st.store[s2][k]
                ELSE @[k]]],
        st.heap))

\* a < b for Go strings: byte by byte, a proper prefix first.
StringLess(a, b) ==
    \/ Len(a) < Len(b) /\ \A i \in 1..Len(a) : a[i] = b[i]
    \/ \E i \in 1..Len(a) :
          /\ i <= Len(b)
          /\ a[i] < b[i]
          /\ \A j \in 1..(i - 1) : a[j] = b[j]

\* ks with k put before the first string greater than it.
RECURSIVE Insert(_, _)
Insert(k, ks) ==
    IF ks = <<>> THEN <<k>>
    ELSE IF StringLess(k, Head(ks)) THEN <<k>> \o ks
    ELSE <<Head(ks)>> \o Insert(k, Tail(ks))

\* sort.Strings(ks)
RECURSIVE SortStrings(_)
SortStrings(ks) ==
    IF ks = <<>> THEN <<>> ELSE Insert(Head(ks), SortStrings(Tail(ks)))

\* The decimal digits of n >= 0, as bytes.
RECURSIVE Digits(_)
Digits(n) ==
    IF n < 10 THEN <<48 + n>> ELSE Digits(n \div 10) \o <<48 + (n % 10)>>

\* fmt.Sprintf("%d", n)
FormatInt(n) == IF n < 0 THEN <<45>> \o Digits(0 - n) ELSE Digits(n)

\* fmt.Sprintf("%s\n%d\n", k, timestamp)
HashLine(k, timestamp) == k \o <<10>> \o FormatInt(timestamp) \o <<10>>

\* A 64-bit unsigned integer is four limbs, lowest first: three of 20 bits
\* and one of 4.
LimbBase == 1048576
TopLimbBase == 16

\* fnv.New64a(): the offset basis 0xcbf29ce484222325.
FnvOffset64 == <<140069, 936002, 783004, 12>>

\* a XOR b for a, b of n bits.
RECURSIVE XorBits(_, _, _)
XorBits(a, b, n) ==
    IF n = 0 THEN 0
    ELSE ((a + b) % 2) + 2 * XorBits(a \div 2, b \div 2, n - 1)

\* One byte written to the hasher: hash ^= c; hash *= 0x100000001b3, modulo
\* 2^64.  The prime is 2^40 + 435, and 2^40 is two limbs.
FnvWriteByte(h, c) ==
    LET x0 == (h[1] \div 256) * 256 + XorBits(h[1] % 256, c, 8)
        p0 == x0 * 435
        p1 == h[2] * 435 + (p0 \div LimbBase)
        p2 == h[3] * 435 + x0 + (p1 \div LimbBase)
        p3 == h[4] * 435 + h[2] + (p2 \div LimbBase) IN
    <<p0 % LimbBase, p1 % LimbBase, p2 % LimbBase, p3 % TopLimbBase>>

\* hasher.Write(bytes)
RECURSIVE FnvWrite(_, _)
FnvWrite(h, bytes) ==
    IF bytes = <<>> THEN h
    ELSE FnvWrite(FnvWriteByte(h, Head(bytes)), Tail(bytes))

\* The lowercase hexadecimal digit of d < 16, as a byte.
HexDigit(d) == IF d < 10 THEN 48 + d ELSE 87 + d

\* n < 16^width as width hexadecimal digits.
RECURSIVE HexDigits(_, _)
HexDigits(n, width) ==
    IF width = 0 THEN <<>>
    ELSE HexDigits(n \div 16, width - 1) \o <<HexDigit(n % 16)>>

\* fmt.Sprintf("%016x", hasher.Sum64())
FormatHash(h) ==
    HexDigits(h[4], 1) \o HexDigits(h[3], 5) \o HexDigits(h[2], 5) \o HexDigits(h[1], 5)

\* The bytes Hash writes to the hasher for the keys ks, in their order.
RECURSIVE HashFeed(_, _, _)
HashFeed(st, s, ks) ==
    IF ks = <<>> THEN <<>>
    ELSE HashLine(Head(ks), st.heap[st.store[s][Head(ks)]].Timestamp)
             \o HashFeed(st, s, Tail(ks))

\* Hash without sort.Strings(ks): the keys are hashed in the order the map
\* yields them.
HashUnsorted(st, s, ks) ==
    FormatHash(FnvWrite(FnvOffset64, HashFeed(st, s, ks)))

\* func (store Store) Hash() string
\* ks is the order in which range store yields the keys, which Go leaves open.
Hash(st, s, ks) ==
    FormatHash(FnvWrite(FnvOffset64, HashFeed(st, s, SortStrings(ks))))

\* The orders in which range can yield the keys of a map.
RangeOrders(m) ==
    {ks \in [1..Cardinality(DOMAIN m) -> DOMAIN m] :
        \A k \in DOMAIN m : \E i \in DOMAIN ks : ks[i] = k}

\* What the caller sees of store s: for each key present, the value or
\* tombstone and the timestamp.
Contents(st, s) == [k \in DOMAIN st.store[s] |-> st.heap[st.store[s][k]]]

\* Copies, under the name to, of the entries store from holds for the keys ks:
\* a new ValueTimestamp for each.
RECURSIVE CopyEntries(_, _, _, _)
CopyEntries(st, from, to, ks) ==
    IF ks = <<>> THEN st
    ELSE IF Head(ks) \notin DOMAIN st.store[from]
    THEN CopyEntries(st, from, to, Tail(ks))
    ELSE LET a == NewAddr(st, to, Head(ks)) IN
         CopyEntries(
             State([st.store EXCEPT ![to] = MapAssign(@, Head(ks), a)],
                   [st.heap EXCEPT ![a] = st.heap[st.store[from][Head(ks)]]]),
             from, to, Tail(ks))

\* A snapshot of store from as another process receives it, held as store to:
\* the Store that json.Unmarshal builds from from.String().
Snapshot(st, from, to) ==
    CopyEntries(
        State([x \in (DOMAIN st.store) \cup {to} |->
                  IF x = to THEN <<>> ELSE st.store[x]],
              st.heap),
        from, to, KeySeq)

\* Stores a and b exchange snapshots: a absorbs a copy of b as it was, and b
\* a copy of a as it was.
Exchange(st, a, b) ==
    LET st0 == Snapshot(Snapshot(st, a, "snapshot1"), b, "snapshot2") IN
    Absorb(Absorb(st0, a, "snapshot2"), b, "snapshot1")

\* The entries of store s2 for the keys ks written to store s one by one, in
\* the order of ks.
RECURSIVE ApplyEntries(_, _, _, _)
ApplyEntries(st, s, s2, ks) ==
    IF ks = <<>> THEN st
    ELSE ApplyEntries(
             LET e == st.heap[st.store[s2][Head(ks)]] IN
             IF e.Value = <<>>
             THEN DeleteTimestamped(st, s, Head(ks), e.Timestamp)
             ELSE SetTimestamped(st, s, Head(ks), e.Value[1], e.Timestamp),
             s, s2, Tail(ks))

\* The (key, timestamp) pairs of store s.
KeyTimestamps(st, s) ==
    {<<k, st.heap[st.store[s][k]].Timestamp>> : k \in DOMAIN st.store[s]}

\* The entry store s holds for a key it has.
EntryAt(st, s, key) == st.heap[st.store[s][key]]

\* The first store of StoreSeq that holds, for KeySeq[i], the object store
\* StoreSeq[j] holds for it.
FirstHolder(st, i, j) ==
    CHOOSE h \in 1..j :
        /\ KeySeq[i] \in DOMAIN st.store[StoreSeq[h]]
        /\ st.store[StoreSeq[h]][KeySeq[i]] = st.store[StoreSeq[j]][KeySeq[i]]
        /\ \A g \in 1..(h - 1) :
              \/ KeySeq[i] \notin DOMAIN st.store[StoreSeq[g]]
              \/ st.store[StoreSeq[g]][KeySeq[i]] # st.store[StoreSeq[j]][KeySeq[i]]

\* A program cannot tell an address from another but by comparing pointers, so
\* st with its objects renumbered is the same program state.  The object a
\* store holds for a key gets the address of the slot of the first store that
\* holds it for that key (no operation moves an object to another key).
Renumber(st) ==
    State([s \in StoreNames |->
              [k \in DOMAIN st.store[s] |->
                  SlotAddr(KeyIndex[k], FirstHolder(st, KeyIndex[k], StoreIndex[s]))]],
          [a \in Addrs |->
              IF a > NumSlots THEN ZeroValueTimestamp
              ELSE LET i == ((a - 1) \div Len(StoreSeq)) + 1
                       j == ((a - 1) % Len(StoreSeq)) + 1 IN
                   IF KeySeq[i] \in DOMAIN st.store[StoreSeq[j]]
                      /\ FirstHolder(st, i, j) = j
                   THEN st.heap[st.store[StoreSeq[j]][KeySeq[i]]]
                   ELSE ZeroValueTimestamp])

Cur == State(store, heap)

\* New stores, as in the examples: store := kvt.Store{}.
NewStores ==
    /\ store = [s \in StoreNames |-> <<>>]
    /\ heap = [a \in Addrs |-> ZeroValueTimestamp]

\* No call of the codec.
NoCodec ==
    /\ entry = ZeroValueTimestamp
    /\ json = <<>>
    /\ vt = ZeroValueTimestamp
    /\ err = <<>>
    /\ pc = "idle"

\* The stores whose callers keep a log of their DeleteTimestamped and Purge
\* calls, and the keys they log: one store and one key (the operations treat
\* every store and every key alike).
LoggedStores == {StoreSeq[1]}
LoggedKeys == {KeySeq[1]}

\* No DeleteTimestamped has been called.
NoHistory ==
    /\ deleted = [s \in LoggedStores |-> [k \in LoggedKeys |-> -1]]
    /\ marked = [s \in LoggedStores |-> [k \in LoggedKeys |-> -1]]

\* No goroutine calls the store while another does.
NoCalls == calls = <<>>

Init == NewStores /\ NoCodec /\ NoHistory /\ NoCalls

CallGet ==
    \E s \in StoreNames, key \in Keys :
        LET st == Get(Cur, s, key).st IN
        store' = st.store /\ heap' = st.heap /\ UNCHANGED <<codec, history, calls>>

CallSetTimestamped ==
    \E s \in StoreNames, key \in Keys, value \in Values, timestamp \in Timestamps :
        LET st == SetTimestamped(Cur, s, key, value, timestamp) IN
        store' = st.store /\ heap' = st.heap /\ UNCHANGED <<codec, history, calls>>

CallDeleteTimestamped ==
    \E s \in StoreNames, key \in Keys, timestamp \in Timestamps :
        LET st == DeleteTimestamped(Cur, s, key, timestamp) IN
        store' = st.store /\ heap' = st.heap /\ UNCHANGED <<codec, history, calls>>

CallPurge ==
    \E s \in StoreNames, cutoff \in Cutoffs :
        LET st == Renumber(Purge(Cur, s, cutoff)) IN
        store' = st.store /\ heap' = st.heap /\ UNCHANGED <<codec, history, calls>>

CallAbsorb ==
    \E s \in StoreNames, s2 \in StoreNames :
        LET st == Renumber(Absorb(Cur, s, s2)) IN
        store' = st.store /\ heap' = st.heap /\ UNCHANGED <<codec, history, calls>>

Next ==
    \/ CallGet
    \/ CallSetTimestamped
    \/ CallDeleteTimestamped
    \/ CallPurge
    \/ CallAbsorb

Spec == Init /\ [][Next]_vars

\* Every object is at the address of the first slot that holds it.
Renumbered == Renumber(Cur) = Cur

-----------------------------------------------------------------------------
(* The stores with a record of the deletions each has accepted: what a      *)
(* caller that logs its DeleteTimestamped and Purge calls knows.             *)

\* Whether DeleteTimestamped(key, timestamp) changes store s: the key is
\* absent, or its timestamp is strictly smaller.
DeleteAccepted(st, s, key, timestamp) ==
    \/ Lookup(st, s, key) = NilAddr
    \/ st.heap[Lookup(st, s, key)].Timestamp < timestamp

Larger(a, b) == IF a < b THEN b ELSE a

LoggedDeleteTimestamped ==
    \E s \in StoreNames, key \in Keys, timestamp \in Timestamps :
        LET st == DeleteTimestamped(Cur, s, key, timestamp)
            accepted == /\ s \in LoggedStores /\ key \in LoggedKeys
                        /\ DeleteAccepted(Cur, s, key, timestamp) IN
        /\ store' = st.store /\ heap' = st.heap
        /\ deleted' = IF accepted
                      THEN [deleted EXCEPT ![s][key] = Larger(@, timestamp)]
                      ELSE deleted
        /\ marked' = IF accepted
                     THEN [marked EXCEPT ![s][key] = Larger(@, timestamp)]
                     ELSE marked
        /\ UNCHANGED <<codec, calls>>

LoggedPurge ==
    \E s \in StoreNames, cutoff \in Cutoffs :
        LET st == Renumber(Purge(Cur, s, cutoff))
            gone == PurgedKeys(Cur, s, cutoff) IN
        /\ store' = st.store /\ heap' = st.heap
        /\ marked' = IF s \in LoggedStores
                     THEN [marked EXCEPT ![s] =
                              [k \in LoggedKeys |-> IF k \in gone THEN -1 ELSE @[k]]]
                     ELSE marked
        /\ UNCHANGED <<codec, deleted, calls>>

NextLogged ==
    \/ CallGet
    \/ CallSetTimestamped
    \/ LoggedDeleteTimestamped
    \/ LoggedPurge
    \/ CallAbsorb

SpecLogged == Init /\ [][NextLogged]_vars

-----------------------------------------------------------------------------
(* Stores whose keys are arbitrary strings, for what Hash writes to the     *)
(* hasher: keys that are empty, or hold a newline or digits.                 *)

\* "", "A", "B", "1" and "A\n1\nB".
HashKeys == {<<>>, <<65>>, <<66>>, <<49>>, <<65, 10, 49, 10, 66>>}

\* The number of keys a store gets at most.
MaxKeys == 2

\* store.SetTimestamped(key, "one", timestamp) with such a key.
CallSetTimestampedAnyKey ==
    \E s \in StoreNames, key \in HashKeys, timestamp \in Timestamps :
        /\ Cardinality(DOMAIN store[s] \cup {key}) <= MaxKeys
        /\ LET st == SetTimestamped(Cur, s, key, one, timestamp) IN
           store' = st.store /\ heap' = st.heap
        /\ UNCHANGED <<codec, history, calls>>

NextAnyKey == CallSetTimestampedAnyKey

SpecAnyKey == Init /\ [][NextAnyKey]_vars

-----------------------------------------------------------------------------
(* Two goroutines that call SetTimestamped or DeleteTimestamped on the same *)
(* key of the same store with no lock: a step is one read or one write of    *)
(* the map or of a field of the object.                                      *)

Goroutines == {"g1", "g2"}
RaceStore == StoreSeq[1]
RaceKey == KeySeq[1]

\* What the key holds before the calls, when it holds something.
RaceEntry == ValueTimestamp(<<two>>, 0)

\* The arguments of a call: the value, or none for DeleteTimestamped, and the
\* timestamp.
RaceWrites == {ValueTimestamp(<<one>>, t) : t \in Timestamps}
                  \cup {ValueTimestamp(<<>>, t) : t \in Timestamps}

\* The store is empty, or holds RaceEntry for the key; each goroutine is about
\* to make its call.  alone: whether the call begins while no other runs.
InitRace ==
    /\ \E present \in BOOLEAN :
          LET st == IF present
                    THEN SetTimestamped(State([s \in StoreNames |-> <<>>],
                                              [a \in Addrs |-> ZeroValueTimestamp]),
                                        RaceStore, RaceKey, two, 0)
                    ELSE State([s \in StoreNames |-> <<>>],
                               [a \in Addrs |-> ZeroValueTimestamp]) IN
          store = st.store /\ heap = st.heap
    /\ NoCodec
    /\ NoHistory
    /\ calls \in [Goroutines -> {[pc |-> "start", w |-> w, valueTimestamp |-> NilAddr,
                                  alone |-> TRUE] : w \in RaceWrites}]

\* valueTimestamp := store[key]
RaceLookup(p) ==
    /\ calls[p].pc = "start"
    /\ calls' = [calls EXCEPT
                    ![p].pc = "read",
                    ![p].valueTimestamp = Lookup(Cur, RaceStore, RaceKey),
                    ![p].alone = \A q \in Goroutines \ {p} :
                                     calls[q].pc \in {"start", "done"}]
    /\ UNCHANGED <<stores, codec, history>>

\* if valueTimestamp == nil { store[key] = &ValueTimestamp{...} }
RaceAssign(p) ==
    /\ calls[p].pc = "read"
    /\ calls[p].valueTimestamp = NilAddr
    /\ LET a == NewAddr(Cur, RaceStore, RaceKey)
           st == Collect(State([store EXCEPT ![RaceStore] = MapAssign(@, RaceKey, a)],
                               [heap EXCEPT ![a] = calls[p].w])) IN
       store' = st.store /\ heap' = st.heap
    /\ calls' = [calls EXCEPT ![p].pc = "done"]
    /\ UNCHANGED <<codec, history>>

\* The test with its operands exchanged: an older write is accepted.
RaceOlder(h, call) == call.w.Timestamp < h[call.valueTimestamp].Timestamp

\* valueTimestamp.Timestamp < timestamp
RaceNewer(h, call) == h[call.valueTimestamp].Timestamp < call.w.Timestamp

\* } else if valueTimestamp.Timestamp < timestamp {
RaceTest(p) ==
    /\ calls[p].pc = "read"
    /\ calls[p].valueTimestamp # NilAddr
    /\ calls' = [calls EXCEPT ![p].pc = IF RaceNewer(heap, calls[p])
                                        THEN "value" ELSE "done"]
    /\ UNCHANGED <<stores, codec, history>>

\* valueTimestamp.Value = &value, or = nil
RaceWriteValue(p) ==
    /\ calls[p].pc = "value"
    /\ heap' = [heap EXCEPT ![calls[p].valueTimestamp].Value = calls[p].w.Value]
    /\ calls' = [calls EXCEPT ![p].pc = "timestamp"]
    /\ UNCHANGED <<store, codec, history>>

\* valueTimestamp.Timestamp = timestamp
RaceWriteTimestamp(p) ==
    /\ calls[p].pc = "timestamp"
    /\ heap' = [heap EXCEPT ![calls[p].valueTimestamp].Timestamp = calls[p].w.Timestamp]
    /\ calls' = [calls EXCEPT ![p].pc = "done"]
    /\ UNCHANGED <<store, codec, history>>

\* The Go runtime may find that a goroutine assigns to the map while another
\* reads it or assigns to it, and then it ends the program ("fatal error:
\* concurrent map writes", "concurrent map read and map write").
RaceFatal ==
    /\ \E p \in Goroutines, q \in Goroutines :
          /\ p # q
          /\ calls[p].pc = "read" /\ calls[p].valueTimestamp = NilAddr
          /\ \/ calls[q].pc = "start"
             \/ calls[q].pc = "read" /\ calls[q].valueTimestamp = NilAddr
    /\ calls' = [p \in Goroutines |-> [calls[p] EXCEPT !.pc = "fatal"]]
    /\ UNCHANGED <<stores, codec, history>>

NextRace ==
    \/ \E p \in Goroutines : RaceLookup(p)
    \/ \E p \in Goroutines : RaceAssign(p)
    \/ \E p \in Goroutines : RaceTest(p)
    \/ \E p \in Goroutines : RaceWriteValue(p)
    \/ \E p \in Goroutines : RaceWriteTimestamp(p)
    \/ RaceFatal

SpecRace == InitRace /\ [][NextRace]_vars

-----------------------------------------------------------------------------
(* 64-bit numbers.  An int64 timestamp of the codec is a sign and a          *)
(* magnitude; a magnitude is four limbs, lowest first, three of 20 bits and  *)
(* a top one that takes the rest.                                            *)

BigZero == <<0, 0, 0, 0>>

\* 10 * n + d
BigMulAdd10(n, d) ==
    LET p1 == n[1] * 10 + d
        p2 == n[2] * 10 + (p1 \div LimbBase)
        p3 == n[3] * 10 + (p2 \div LimbBase)
        p4 == n[4] * 10 + (p3 \div LimbBase) IN
    <<p1 % LimbBase, p2 % LimbBase, p3 % LimbBase, p4>>

\* n \div 10 and n % 10
BigDivMod10(n) ==
    LET c3 == (n[4] % 10) * LimbBase + n[3]
        c2 == (c3 % 10) * LimbBase + n[2]
        c1 == (c2 % 10) * LimbBase + n[1] IN
    [quot |-> <<c1 \div 10, c2 \div 10, c3 \div 10, n[4] \div 10>>, rem |-> c1 % 10]

\* n + d for d < LimbBase
BigAddSmall(n, d) ==
    LET p1 == n[1] + d
        p2 == n[2] + (p1 \div LimbBase)
        p3 == n[3] + (p2 \div LimbBase) IN
    <<p1 % LimbBase, p2 % LimbBase, p3 % LimbBase, n[4] + (p3 \div LimbBase)>>

\* a < b
BigLess(a, b) ==
    \E i \in 1..4 : a[i] < b[i] /\ \A j \in (i + 1)..4 : a[j] = b[j]

\* The magnitude of a decimal numeral, given as digit bytes.
RECURSIVE BigOfDigits(_, _)
BigOfDigits(digits, n) ==
    IF digits = <<>> THEN n
    ELSE BigOfDigits(Tail(digits), BigMulAdd10(n, Head(digits) - 48))

\* The decimal numeral of a magnitude, as digit bytes.
RECURSIVE BigDigits(_)
BigDigits(n) ==
    LET dm == BigDivMod10(n) IN
    IF dm.quot = BigZero THEN <<48 + dm.rem>>
    ELSE BigDigits(dm.quot) \o <<48 + dm.rem>>

\* The number of bits of x: 0 for 0.
RECURSIVE BitLen(_)
BitLen(x) == IF x = 0 THEN 0 ELSE 1 + BitLen(x \div 2)

BigBitLen(n) ==
    IF n[4] > 0 THEN 60 + BitLen(n[4])
    ELSE IF n[3] > 0 THEN 40 + BitLen(n[3])
    ELSE IF n[2] > 0 THEN 20 + BitLen(n[2])
    ELSE BitLen(n[1])

RECURSIVE Pow2(_)
Pow2(k) == IF k = 0 THEN 1 ELSE 2 * Pow2(k - 1)

\* 2^63: the magnitude of math.MinInt64, one more than math.MaxInt64.
Big2Pow63 == <<0, 0, 0, 8>>
BigMaxInt64 == <<LimbBase - 1, LimbBase - 1, LimbBase - 1, 7>>

\* An int64: mag <= 2^63 - 1, or 2^63 when neg.
Int64(neg, mag) == [neg |-> neg /\ mag # BigZero, mag |-> mag]
MinInt64 == Int64(TRUE, Big2Pow63)
MaxInt64 == Int64(FALSE, BigMaxInt64)

\* The int64 of a decimal numeral such as "-12".
ParseInt64(text) ==
    IF Head(text) = 45 THEN Int64(TRUE, BigOfDigits(Tail(text), BigZero))
    ELSE Int64(FALSE, BigOfDigits(text, BigZero))

\* strconv.AppendInt(i, 10): how encoding/json writes an int64.
FormatInt64(i) ==
    IF i.neg THEN <<45>> \o BigDigits(i.mag) ELSE BigDigits(i.mag)

\* The float64 nearest to the integer n, ties to even: a float64 has a
\* 53-bit significand.  For n below 2^72.
SignificandBits == 53
RoundToFloat64(n) ==
    LET len == BigBitLen(n) IN
    IF len <= SignificandBits THEN n
    ELSE LET unit == Pow2(len - SignificandBits)
             low == n[1] % unit
             odd == (n[1] \div unit) % 2
             down == <<n[1] - low, n[2], n[3], n[4]>> IN
         IF 2 * low > unit \/ (2 * low = unit /\ odd = 1)
         THEN BigAddSmall(down, unit)
         ELSE down

\* A float64 of the codec: sign, integer part, and whether a fraction other
\* than zero follows it.
Float64(neg, mag, frac) == [neg |-> neg, mag |-> mag, frac |-> frac]

\* a == b of Go for two float64: -0 equals 0.
Float64Equal(a, b) ==
    /\ a.mag = b.mag
    /\ a.frac = b.frac
    /\ (a.neg = b.neg \/ (a.mag = BigZero /\ ~a.frac))

\* float64(i) for an int64 i.
Float64OfInt64(i) == Float64(i.neg, RoundToFloat64(i.mag), FALSE)

\* int64(t) for a float64 t: the integer part.  When that is not an int64, Go
\* leaves the result to the implementation: math.MinInt64 on amd64, and where
\* the conversion saturates (arm64) the nearest int64.
Int64OfFloat64(t, saturates) ==
    IF (~t.neg /\ ~BigLess(t.mag, Big2Pow63)) \/ (t.neg /\ BigLess(Big2Pow63, t.mag))
    THEN IF saturates /\ ~t.neg THEN MaxInt64 ELSE MinInt64
    ELSE Int64(t.neg, t.mag)

-----------------------------------------------------------------------------
(* JSON text, as encoding/json writes and reads it.  A text is a sequence of *)
(* bytes.                                                                    *)

\* Whether b[i] is a UTF-8 continuation byte within lo..hi.
Continues(b, i, lo, hi) == i <= Len(b) /\ b[i] >= lo /\ b[i] <= hi

\* utf8.DecodeRune at b[i]: the size of the encoding that starts there, or 0
\* where Go gives (RuneError, 1).
RuneSize(b, i) ==
    LET c == b[i] IN
    IF c < 128 THEN 1
    ELSE IF c >= 194 /\ c <= 223
    THEN IF Continues(b, i + 1, 128, 191) THEN 2 ELSE 0
    ELSE IF c >= 224 /\ c <= 239
    THEN IF /\ Continues(b, i + 1, IF c = 224 THEN 160 ELSE 128, IF c = 237 THEN 159 ELSE 191)
            /\ Continues(b, i + 2, 128, 191)
         THEN 3 ELSE 0
    ELSE IF c >= 240 /\ c <= 244
    THEN IF /\ Continues(b, i + 1, IF c = 240 THEN 144 ELSE 128, IF c = 244 THEN 143 ELSE 191)
            /\ Continues(b, i + 2, 128, 191)
            /\ Continues(b, i + 3, 128, 191)
         THEN 4 ELSE 0
    ELSE 0

\* utf8.AppendRune for a rune r.
EncodeRune(r) ==
    IF r < 128 THEN <<r>>
    ELSE IF r < 2048 THEN <<192 + (r \div 64), 128 + (r % 64)>>
    ELSE IF r < 65536
    THEN <<224 + (r \div 4096), 128 + ((r \div 64) % 64), 128 + (r % 64)>>
    ELSE <<240 + (r \div 262144), 128 + ((r \div 4096) % 64),
           128 + ((r \div 64) % 64), 128 + (r % 64)>>

\* unicode.ReplacementChar, U+FFFD, in UTF-8.
ReplacementChar == EncodeRune(65533)

LowerHex(d) == IF d < 10 THEN 48 + d ELSE 87 + d

\* htmlSafeSet of encoding/json: the ASCII bytes written as they are.
HtmlSafe(c) == c >= 32 /\ c < 128 /\ c \notin {34, 92, 60, 62, 38}

\* What appendString of encoding/json writes for the text that starts at s[i],
\* and how many bytes of s it covers.
EncodeStep(s, i) ==
    LET c == s[i]
        size == RuneSize(s, i) IN
    IF c < 128
    THEN [size |-> 1,
          text |-> IF HtmlSafe(c) THEN <<c>>
                   ELSE IF c \in {92, 34} THEN <<92, c>>
                   ELSE IF c = 8 THEN <<92, 98>>
                   ELSE IF c = 12 THEN <<92, 102>>
                   ELSE IF c = 10 THEN <<92, 110>>
                   ELSE IF c = 13 THEN <<92, 114>>
                   ELSE IF c = 9 THEN <<92, 116>>
                   ELSE <<92, 117, 48, 48, LowerHex(c \div 16), LowerHex(c % 16)>>]
    ELSE IF size = 0
    THEN [size |-> 1, text |-> <<92, 117, 102, 102, 102, 100>>]
    ELSE IF size = 3 /\ c = 226 /\ s[i + 1] = 128 /\ s[i + 2] \in {168, 169}
    THEN [size |-> 3, text |-> <<92, 117, 50, 48, 50, LowerHex(s[i + 2] % 16)>>]
    ELSE [size |-> size, text |-> SubSeq(s, i, i + size - 1)]

RECURSIVE EncodeChars(_, _)
EncodeChars(s, i) ==
    IF i > Len(s) THEN <<>>
    ELSE LET step == EncodeStep(s, i) IN step.text \o EncodeChars(s, i + step.size)

\* A Go string as a JSON string.
EncodeString(s) == <<34>> \o EncodeChars(s, 1) \o <<34>>

null == <<110, 117, 108, 108>>

\* json.Marshal([]interface{}{value, timestamp}) for a *string and an int64.
MarshalArray(value, timestamp) ==
    <<91>> \o (IF value = <<>> THEN null ELSE EncodeString(value[1]))
           \o <<44>> \o FormatInt64(timestamp) \o <<93>>

\* MarshalJSON of a ValueTimestamp: the bytes; the error is always nil.
MarshalJSON(valueTimestamp) ==
    MarshalArray(valueTimestamp.Value, valueTimestamp.Timestamp)

-----------------------------------------------------------------------------
(* JSON numbers: the float64 that a numeral decodes to.                      *)

IsDigit(c) == c >= 48 /\ c <= 57

AllZeros(digits) == \A i \in 1..Len(digits) : digits[i] = 48

\* The first index from i on where b has no byte of the set, Len(b) + 1 if
\* there is none.
Span(b, i, set) ==
    LET stops == {j \in i..Len(b) : b[j] \notin set} IN
    IF stops = {} THEN Len(b) + 1
    ELSE CHOOSE j \in stops : \A k \in stops : j <= k

\* digits without its leading zeros.
StripZeros(digits) == SubSeq(digits, Span(digits, 1, {48}), Len(digits))

\* m times the decimal fraction 0.digits: the carry into the units and the
\* fraction that is left.
RECURSIVE TimesFrom(_, _, _)
TimesFrom(digits, m, i) ==
    IF i > Len(digits) THEN [carry |-> 0, digits |-> <<>>]
    ELSE LET rest == TimesFrom(digits, m, i + 1)
             d == m * (digits[i] - 48) + rest.carry IN
         [carry |-> d \div 10, digits |-> <<48 + (d % 10)>> \o rest.digits]

Times(digits, m) == TimesFrom(digits, m, 1)

\* The first k binary digits of the fraction 0.digits: whether they are all
\* zero, all one, the last of them, and the fraction left after them.  Once
\* they are neither all zero nor all one the rest is not looked at.  The
\* digits are taken up to 27 at a time.
RECURSIVE FracBits(_, _, _, _, _)
FracBits(digits, k, allZero, allOne, last) ==
    IF k = 0 \/ (~allZero /\ ~allOne) \/ (AllZeros(digits) /\ ~allOne)
    THEN [allZero |-> allZero, allOne |-> allOne /\ k = 0,
          last |-> IF k = 0 THEN last ELSE 0, rest |-> digits]
    ELSE LET n == IF k < 27 THEN k ELSE 27
             d == Times(digits, Pow2(n)) IN
         FracBits(d.digits, k - n, allZero /\ d.carry = 0,
                  allOne /\ d.carry = Pow2(n) - 1, d.carry % 2)

\* How 0.digits compares with one half: -1, 0 or 1.
CompareHalf(digits) ==
    LET d == Times(digits, 2) IN
    IF d.carry = 0 THEN -1 ELSE IF AllZeros(d.digits) THEN 0 ELSE 1

\* The least float64 above zero is 2^-SubnormalBits.
SubnormalBits == 1074

\* The digits of the numeral int.frac * 10^exp with the point moved to where
\* exp is 0.
ShiftPoint(int, frac, exp) ==
    IF exp >= 0
    THEN [int |-> int \o [i \in 1..exp |-> IF i <= Len(frac) THEN frac[i] ELSE 48],
          frac |-> SubSeq(frac, exp + 1, Len(frac))]
    ELSE [int |-> SubSeq(int, 1, Len(int) + exp),
          frac |-> [i \in 1..(0 - exp) |->
                       IF Len(int) + exp + i >= 1 THEN int[Len(int) + exp + i] ELSE 48]
                   \o frac]

\* Numerals of more decimal digits than MaxInt64Digits + 1 are beyond every
\* int64 and every uint64.
MaxInt64Digits == 19
BigBeyond == <<0, 0, 0, 16>>

\* Numerals of more digits than this are beyond every float64.
MaxFloat64Digits == 309

\* 2^-1075, half the least float64 above zero, is 0. followed by this many
\* zeros and then the digits of 5^1075.
MinFloat64Zeros == 323
Float64Underflow ==
  <<
    50, 52, 55, 48, 51, 50, 56, 50, 50, 57, 50, 48, 54, 50, 51, 50, 55, 50,
    48, 56, 56, 50, 56, 52, 51, 57, 54, 52, 51, 52, 49, 49, 48, 54, 56, 54,
    49, 56, 50, 53, 50, 57, 57, 48, 49, 51, 48, 55, 49, 54, 50, 51, 56, 50,
    50, 49, 50, 55, 57, 50, 56, 52, 49, 50, 53, 48, 51, 51, 55, 55, 53, 51,
    54, 51, 53, 49, 48, 52, 51, 55, 53, 57, 51, 50, 54, 52, 57, 57, 49, 56,
    49, 56, 48, 56, 49, 55, 57, 57, 54, 49, 56, 57, 56, 57, 56, 50, 56, 50,
    51, 52, 55, 55, 50, 50, 56, 53, 56, 56, 54, 53, 52, 54, 51, 51, 50, 56,
    51, 53, 53, 49, 55, 55, 57, 54, 57, 56, 57, 56, 49, 57, 57, 51, 56, 55,
    51, 57, 56, 48, 48, 53, 51, 57, 48, 57, 51, 57, 48, 54, 51, 49, 53, 48,
    51, 53, 54, 53, 57, 53, 49, 53, 53, 55, 48, 50, 50, 54, 51, 57, 50, 50,
    57, 48, 56, 53, 56, 51, 57, 50, 52, 52, 57, 49, 48, 53, 49, 56, 52, 52,
    51, 53, 57, 51, 49, 56, 48, 50, 56, 52, 57, 57, 51, 54, 53, 51, 54, 49,
    53, 50, 53, 48, 48, 51, 49, 57, 51, 55, 48, 52, 53, 55, 54, 55, 56, 50,
    52, 57, 50, 49, 57, 51, 54, 53, 54, 50, 51, 54, 54, 57, 56, 54, 51, 54,
    53, 56, 52, 56, 48, 55, 53, 55, 48, 48, 49, 53, 56, 53, 55, 54, 57, 50,
    54, 57, 57, 48, 51, 55, 48, 54, 51, 49, 49, 57, 50, 56, 50, 55, 57, 53,
    53, 56, 53, 53, 49, 51, 51, 50, 57, 50, 55, 56, 51, 52, 51, 51, 56, 52,
    48, 57, 51, 53, 49, 57, 55, 56, 48, 49, 53, 53, 51, 49, 50, 52, 54, 53,
    57, 55, 50, 54, 51, 53, 55, 57, 53, 55, 52, 54, 50, 50, 55, 54, 54, 52,
    54, 53, 50, 55, 50, 56, 50, 55, 50, 50, 48, 48, 53, 54, 51, 55, 52, 48,
    48, 54, 52, 56, 53, 52, 57, 57, 57, 55, 55, 48, 57, 54, 53, 57, 57, 52,
    55, 48, 52, 53, 52, 48, 50, 48, 56, 50, 56, 49, 54, 54, 50, 50, 54, 50,
    51, 55, 56, 53, 55, 51, 57, 51, 52, 53, 48, 55, 51, 54, 51, 51, 57, 48,
    48, 55, 57, 54, 55, 55, 54, 49, 57, 51, 48, 53, 55, 55, 53, 48, 54, 55,
    52, 48, 49, 55, 54, 51, 50, 52, 54, 55, 51, 54, 48, 48, 57, 54, 56, 57,
    53, 49, 51, 52, 48, 53, 51, 53, 53, 51, 55, 52, 53, 56, 53, 49, 54, 54,
    54, 49, 49, 51, 52, 50, 50, 51, 55, 54, 54, 54, 55, 56, 54, 48, 52, 49,
    54, 50, 49, 53, 57, 54, 56, 48, 52, 54, 49, 57, 49, 52, 52, 54, 55, 50,
    57, 49, 56, 52, 48, 51, 48, 48, 53, 51, 48, 48, 53, 55, 53, 51, 48, 56,
    52, 57, 48, 52, 56, 55, 54, 53, 51, 57, 49, 55, 49, 49, 51, 56, 54, 53,
    57, 49, 54, 52, 54, 50, 51, 57, 53, 50, 52, 57, 49, 50, 54, 50, 51, 54,
    53, 51, 56, 56, 49, 56, 55, 57, 54, 51, 54, 50, 51, 57, 51, 55, 51, 50,
    56, 48, 52, 50, 51, 56, 57, 49, 48, 49, 56, 54, 55, 50, 51, 52, 56, 52,
    57, 55, 54, 54, 56, 50, 51, 53, 48, 56, 57, 56, 54, 51, 51, 56, 56, 53,
    56, 55, 57, 50, 53, 54, 50, 56, 51, 48, 50, 55, 53, 53, 57, 57, 53, 54,
    53, 55, 53, 50, 52, 52, 53, 53, 53, 48, 55, 50, 53, 53, 49, 56, 57, 51,
    49, 51, 54, 57, 48, 56, 51, 54, 50, 53, 52, 55, 55, 57, 49, 56, 54, 57,
    52, 56, 54, 54, 55, 57, 57, 52, 57, 54, 56, 51, 50, 52, 48, 52, 57, 55,
    48, 53, 56, 50, 49, 48, 50, 56, 53, 49, 51, 49, 56, 53, 52, 53, 49, 51,
    57, 54, 50, 49, 51, 56, 51, 55, 55, 50, 50, 56, 50, 54, 49, 52, 53, 52,
    51, 55, 54, 57, 51, 52, 49, 50, 53, 51, 50, 48, 57, 56, 53, 57, 49, 51,
    50, 55, 54, 54, 55, 50, 51, 54, 51, 50, 56, 49, 50, 53>>

\* Whether the fraction 0.frac is at most 2^-1075: its float64 is then zero.
Underflows(frac) ==
    LET zeros == Span(frac, 1, {48}) - 1
        rest == SubSeq(frac, MinFloat64Zeros + 1, Len(frac))
        marks == {i \in 1..Len(rest) : rest[i] # 48}
        last == CHOOSE i \in marks : \A j \in marks : j <= i IN
    \/ zeros > MinFloat64Zeros
    \/ zeros = Len(frac)
    \/ zeros = MinFloat64Zeros /\ ~StringLess(Float64Underflow, SubSeq(rest, 1, last))

\* strconv.ParseFloat(numeral, 64), for what the decoder makes of it: the
\* float64 nearest to neg int.frac, ties to even, as an integer part and
\* whether a fraction is left.  An integer part beyond 2^64 counts as 2^64.
\* A fraction that does not underflow and does not start with 9 is neither 0
\* nor 1 as a float64.
RoundDecimal(neg, int0, frac) ==
    LET int == StripZeros(int0)
        mag == IF Len(int) > MaxInt64Digits + 1 THEN BigBeyond
               ELSE BigOfDigits(int, BigZero)
        len == BigBitLen(mag)
        half == CompareHalf(frac) IN
    IF len > SignificandBits
    THEN LET unit == Pow2(len - SignificandBits)
             low == mag[1] % unit
             odd == (mag[1] \div unit) % 2
             down == <<mag[1] - low, mag[2], mag[3], mag[4]>>
             up == \/ 2 * low > unit
                   \/ 2 * low = unit /\ (odd = 1 \/ ~AllZeros(frac)) IN
         Float64(neg, IF up THEN BigAddSmall(down, unit) ELSE down, FALSE)
    ELSE IF len = SignificandBits
    THEN Float64(neg, IF half = 1 \/ (half = 0 /\ mag[1] % 2 = 1)
                      THEN BigAddSmall(mag, 1) ELSE mag, FALSE)
    ELSE IF len = 0 /\ Underflows(frac)
    THEN Float64(neg, mag, FALSE)
    ELSE IF len = 0 /\ Head(frac) # 57
    THEN Float64(neg, mag, TRUE)
    ELSE LET bits == FracBits(frac, IF len = 0 THEN SignificandBits
                                    ELSE SignificandBits - len, len # 0, TRUE, 0)
             rest == CompareHalf(bits.rest) IN
         IF bits.allZero /\ rest # 1
         THEN Float64(neg, mag, FALSE)
         ELSE IF bits.allOne /\ rest # -1
         THEN Float64(neg, BigAddSmall(mag, 1), FALSE)
         ELSE Float64(neg, mag, TRUE)

\* 2^1024 - 2^970 in decimal: half way between math.MaxFloat64 and 2^1024.
\* A numeral of this value or more is out of the range of float64.
Float64Overflow ==
  <<
    49, 55, 57, 55, 54, 57, 51, 49, 51, 52, 56, 54, 50, 51, 49, 53, 56, 48,
    55, 57, 51, 55, 50, 56, 57, 55, 49, 52, 48, 53, 51, 48, 51, 52, 49, 53,
    48, 55, 57, 57, 51, 52, 49, 51, 50, 55, 49, 48, 48, 51, 55, 56, 50, 54,
    57, 51, 54, 49, 55, 51, 55, 55, 56, 57, 56, 48, 52, 52, 52, 57, 54, 56,
    50, 57, 50, 55, 54, 52, 55, 53, 48, 57, 52, 54, 54, 52, 57, 48, 49, 55,
    57, 55, 55, 53, 56, 55, 50, 48, 55, 48, 57, 54, 51, 51, 48, 50, 56, 54,
    52, 49, 54, 54, 57, 50, 56, 56, 55, 57, 49, 48, 57, 52, 54, 53, 53, 53,
    53, 52, 55, 56, 53, 49, 57, 52, 48, 52, 48, 50, 54, 51, 48, 54, 53, 55,
    52, 56, 56, 54, 55, 49, 53, 48, 53, 56, 50, 48, 54, 56, 49, 57, 48, 56,
    57, 48, 50, 48, 48, 48, 55, 48, 56, 51, 56, 51, 54, 55, 54, 50, 55, 51,
    56, 53, 52, 56, 52, 53, 56, 49, 55, 55, 49, 49, 53, 51, 49, 55, 54, 52,
    52, 55, 53, 55, 51, 48, 50, 55, 48, 48, 54, 57, 56, 53, 53, 53, 55, 49,
    51, 54, 54, 57, 53, 57, 54, 50, 50, 56, 52, 50, 57, 49, 52, 56, 49, 57,
    56, 54, 48, 56, 51, 52, 57, 51, 54, 52, 55, 53, 50, 57, 50, 55, 49, 57,
    48, 55, 52, 49, 54, 56, 52, 52, 52, 51, 54, 53, 53, 49, 48, 55, 48, 52,
    51, 52, 50, 55, 49, 49, 53, 53, 57, 54, 57, 57, 53, 48, 56, 48, 57, 51,
    48, 52, 50, 56, 56, 48, 49, 55, 55, 57, 48, 52, 49, 55, 52, 52, 57, 55,
    55, 57, 50>>

\* Whether the numeral int.frac is out of the range of float64.
OutOfFloat64(int0) ==
    LET int == StripZeros(int0) IN
    \/ Len(int) > MaxFloat64Digits
    \/ Len(int) = MaxFloat64Digits /\ ~StringLess(int, Float64Overflow)

-----------------------------------------------------------------------------
(* Reading JSON text: json.Unmarshal into an interface{}.                    *)

\* What an interface{} holds after decoding: "nil", "bool", "float64",
\* "string", "slice" (of such values) or "map" (its values, in text order).
JSONValue(kind, data) == [kind |-> kind, data |-> data]
JSONNil == JSONValue("nil", <<>>)

Parsed(val, next) == [ok |-> TRUE, val |-> val, next |-> next]
NotParsed == [ok |-> FALSE, val |-> JSONNil, next |-> 0]

\* b[i], or -1 past the end of b.
At(b, i) == IF i <= Len(b) THEN b[i] ELSE -1

HasPrefixAt(b, i, prefix) ==
    i + Len(prefix) - 1 <= Len(b) /\ SubSeq(b, i, i + Len(prefix) - 1) = prefix

SkipSpace(b, i) == Span(b, i, {32, 9, 13, 10})

DigitsEnd(b, i) == Span(b, i, 48..57)

HexValue(c) ==
    IF IsDigit(c) THEN c - 48
    ELSE IF c >= 97 /\ c <= 102 THEN c - 87
    ELSE IF c >= 65 /\ c <= 70 THEN c - 55
    ELSE -1

\* getu4 of encoding/json at b[i]: the rune of a \uXXXX escape, or -1.
GetU4(b, i) ==
    IF /\ i + 5 <= Len(b)
       /\ b[i] = 92
       /\ b[i + 1] = 117
       /\ \A j \in (i + 2)..(i + 5) : HexValue(b[j]) >= 0
    THEN HexValue(b[i + 2]) * 4096 + HexValue(b[i + 3]) * 256
         + HexValue(b[i + 4]) * 16 + HexValue(b[i + 5])
    ELSE -1

\* One step of unquote: the bytes that the text at b[i], inside a JSON string,
\* stands for, and the size of that text; size 0 where the text is not valid.
UnquoteStep(b, i) ==
    LET c == b[i]
        e == At(b, i + 1)
        rr == GetU4(b, i)
        rr1 == GetU4(b, i + 6)
        size == RuneSize(b, i) IN
    IF c = 92
    THEN IF e \in {34, 92, 47} THEN [size |-> 2, text |-> <<e>>]
         ELSE IF e = 98 THEN [size |-> 2, text |-> <<8>>]
         ELSE IF e = 102 THEN [size |-> 2, text |-> <<12>>]
         ELSE IF e = 110 THEN [size |-> 2, text |-> <<10>>]
         ELSE IF e = 114 THEN [size |-> 2, text |-> <<13>>]
         ELSE IF e = 116 THEN [size |-> 2, text |-> <<9>>]
         ELSE IF rr < 0 THEN [size |-> 0, text |-> <<>>]
         ELSE IF rr < 55296 \/ rr > 57343 THEN [size |-> 6, text |-> EncodeRune(rr)]
         ELSE IF rr < 56320 /\ rr1 >= 56320 /\ rr1 <= 57343
         THEN [size |-> 12,
               text |-> EncodeRune(65536 + (rr - 55296) * 1024 + (rr1 - 56320))]
         ELSE [size |-> 6, text |-> ReplacementChar]
    ELSE IF c < 32 THEN [size |-> 0, text |-> <<>>]
    ELSE IF c < 128 THEN [size |-> 1, text |-> <<c>>]
    ELSE IF size = 0 THEN [size |-> 1, text |-> ReplacementChar]
    ELSE [size |-> size, text |-> SubSeq(b, i, i + size - 1)]

\* The JSON string whose opening quote is before b[i].
RECURSIVE ParseChars(_, _, _)
ParseChars(b, i, s) ==
    IF i > Len(b) THEN NotParsed
    ELSE IF b[i] = 34 THEN Parsed(JSONValue("string", s), i + 1)
    ELSE LET step == UnquoteStep(b, i) IN
         IF step.size = 0 THEN NotParsed
         ELSE ParseChars(b, i + step.size, s \o step.text)

\* The value of the decimal numeral digits, or cap if that is less.
RECURSIVE Capped(_, _, _)
Capped(digits, cap, n) ==
    IF digits = <<>> THEN n
    ELSE LET m == 10 * n + (Head(digits) - 48) IN
         Capped(Tail(digits), cap, IF m > cap THEN cap ELSE m)

\* The JSON number at b[i]: its float64, or that it is out of range, and the
\* digits of the numeral it was read from, before any rounding.  An
\* exponent beyond SubnormalBits + Len(b) moves the point no further than
\* that one does.
ParseNumber(b, i) ==
    LET neg == b[i] = 45
        intStart == IF neg THEN i + 1 ELSE i
        intEnd == IF At(b, intStart) = 48 THEN intStart + 1 ELSE DigitsEnd(b, intStart)
        hasFrac == At(b, intEnd) = 46
        fracEnd == IF hasFrac THEN DigitsEnd(b, intEnd + 1) ELSE intEnd
        hasExp == At(b, fracEnd) \in {101, 69}
        expStart == IF At(b, fracEnd + 1) \in {43, 45} THEN fracEnd + 2 ELSE fracEnd + 1
        expEnd == IF hasExp THEN DigitsEnd(b, expStart) ELSE fracEnd
        exp == IF hasExp
               THEN Capped(SubSeq(b, expStart, expEnd - 1), SubnormalBits + Len(b), 0)
               ELSE 0
        digits == ShiftPoint(SubSeq(b, intStart, intEnd - 1),
                             IF hasFrac THEN SubSeq(b, intEnd + 1, fracEnd - 1) ELSE <<>>,
                             IF At(b, fracEnd + 1) = 45 THEN 0 - exp ELSE exp) IN
    IF \/ intEnd = intStart
       \/ hasFrac /\ fracEnd = intEnd + 1
       \/ hasExp /\ expEnd = expStart
    THEN NotParsed
    ELSE Parsed(JSONValue("float64",
                          [range |-> OutOfFloat64(digits.int),
                           f |-> RoundDecimal(neg, digits.int, digits.frac),
                           numeral |-> [neg |-> neg, int |-> digits.int,
                                        frac |-> digits.frac]]),
                expEnd)

RECURSIVE ParseValue(_, _), ParseElems(_, _, _), ParseMembers(_, _, _)

\* The JSON value that starts at b[i].
ParseValue(b, i) ==
    LET c == At(b, i) IN
    IF c = 34 THEN ParseChars(b, i + 1, <<>>)
    ELSE IF c = 45 \/ IsDigit(c) THEN ParseNumber(b, i)
    ELSE IF c = 91
    THEN IF At(b, SkipSpace(b, i + 1)) = 93
         THEN Parsed(JSONValue("slice", <<>>), SkipSpace(b, i + 1) + 1)
         ELSE ParseElems(b, SkipSpace(b, i + 1), <<>>)
    ELSE IF c = 123
    THEN IF At(b, SkipSpace(b, i + 1)) = 125
         THEN Parsed(JSONValue("map", <<>>), SkipSpace(b, i + 1) + 1)
         ELSE ParseMembers(b, SkipSpace(b, i + 1), <<>>)
    ELSE IF HasPrefixAt(b, i, null) THEN Parsed(JSONNil, i + 4)
    ELSE IF HasPrefixAt(b, i, <<116, 114, 117, 101>>)
    THEN Parsed(JSONValue("bool", <<>>), i + 4)
    ELSE IF HasPrefixAt(b, i, <<102, 97, 108, 115, 101>>)
    THEN Parsed(JSONValue("bool", <<>>), i + 5)
    ELSE NotParsed

\* What follows the element v of an array: a comma and the next element, or
\* the end of the array.
ElemsAfter(b, elems, v) ==
    LET j == SkipSpace(b, v.next) IN
    IF ~v.ok THEN NotParsed
    ELSE IF At(b, j) = 44 THEN ParseElems(b, SkipSpace(b, j + 1), Append(elems, v.val))
    ELSE IF At(b, j) = 93 THEN Parsed(JSONValue("slice", Append(elems, v.val)), j + 1)
    ELSE NotParsed

\* The rest of an array whose next element starts at b[i].
ParseElems(b, i, elems) == ElemsAfter(b, elems, ParseValue(b, i))

\* What follows the value v of a member of an object.
MembersAfter(b, elems, v) ==
    LET j == SkipSpace(b, v.next) IN
    IF ~v.ok THEN NotParsed
    ELSE IF At(b, j) = 44 THEN ParseMembers(b, SkipSpace(b, j + 1), Append(elems, v.val))
    ELSE IF At(b, j) = 125 THEN Parsed(JSONValue("map", Append(elems, v.val)), j + 1)
    ELSE NotParsed

\* The colon and the value that follow the key k of a member of an object.
MemberValue(b, elems, k) ==
    LET colon == SkipSpace(b, k.next) IN
    MembersAfter(b, elems, IF k.ok /\ At(b, colon) = 58
                           THEN ParseValue(b, SkipSpace(b, colon + 1))
                           ELSE NotParsed)

\* The rest of an object whose next key starts at b[i].
ParseMembers(b, i, elems) ==
    MemberValue(b, elems, IF At(b, i) = 34 THEN ParseChars(b, i + 1, <<>>) ELSE NotParsed)

\* v if the text b ends after it, but for space.
WholeText(b, v) ==
    IF v.ok /\ SkipSpace(b, v.next) = Len(b) + 1 THEN v ELSE NotParsed

\* checkValid and the decoding of the text b: one JSON value with nothing but
\* space around it.
ParseJSON(b) == WholeText(b, ParseValue(b, SkipSpace(b, 1)))

\* Whether a number of v is out of the range of float64.
RECURSIVE HasRangeError(_)
HasRangeError(v) ==
    IF v.kind = "float64" THEN v.data.range
    ELSE IF v.kind \in {"slice", "map"}
    THEN \E i \in 1..Len(v.data) : HasRangeError(v.data[i])
    ELSE FALSE

\* An error value: nil is <<>>.
Errorf(format, b) == <<[format |-> format, from |-> b]>>

\* What json.Unmarshal makes of the parsed text v for a []interface{}: the
\* slice and the error.  The text null leaves a nil slice; a text that is not
\* an array, and a number out of range, are an UnmarshalTypeError.
UnmarshalSlice(v) ==
    IF ~v.ok THEN [slice |-> <<>>, err |-> Errorf("json: SyntaxError", <<>>)]
    ELSE IF v.val.kind = "nil" THEN [slice |-> <<>>, err |-> <<>>]
    ELSE IF v.val.kind # "slice" \/ HasRangeError(v.val)
    THEN [slice |-> <<>>, err |-> Errorf("json: UnmarshalTypeError", <<>>)]
    ELSE [slice |-> v.val.data, err |-> <<>>]

\* json.Unmarshal(b, &jsonValueTimestamp)
Unmarshal(b) == UnmarshalSlice(ParseJSON(b))

\* UnmarshalJSON after its call of json.Unmarshal, which gave decoded.
LoadValueTimestamp(valueTimestamp, b, decoded, saturates) ==
    LET jsonValueTimestamp == decoded.slice
        withValue == [valueTimestamp EXCEPT !.Value =
                         IF jsonValueTimestamp[1].kind = "nil" THEN <<>>
                         ELSE <<jsonValueTimestamp[1].data>>]
        t == jsonValueTimestamp[2].data.f IN
    IF decoded.err # <<>>
    THEN [valueTimestamp |-> valueTimestamp, err |-> decoded.err]
    ELSE IF Len(jsonValueTimestamp) # 2
    THEN [valueTimestamp |-> valueTimestamp,
          err |-> Errorf("expected [value,timestamp] from: %s", b)]
    ELSE IF jsonValueTimestamp[1].kind \notin {"nil", "string"}
    THEN [valueTimestamp |-> valueTimestamp, err |-> Errorf("invalid value from: %s", b)]
    ELSE IF \/ jsonValueTimestamp[2].kind # "float64"
            \/ ~Float64Equal(Float64OfInt64(Int64OfFloat64(t, saturates)), t)
    THEN [valueTimestamp |-> withValue, err |-> Errorf("invalid timestamp from: %s", b)]
    ELSE [valueTimestamp |-> [withValue EXCEPT !.Timestamp = Int64OfFloat64(t, saturates)],
          err |-> <<>>]

\* UnmarshalJSON(b) on valueTimestamp: valueTimestamp after the call, and the
\* error.
UnmarshalJSON(valueTimestamp, b, saturates) ==
    LoadValueTimestamp(valueTimestamp, b, Unmarshal(b), saturates)

-----------------------------------------------------------------------------
(* The codec as a state machine: MarshalJSON on an entry and UnmarshalJSON   *)
(* on what it returned, or UnmarshalJSON on a text.                          *)

\* The values *string points to.
CodecStrings == {
    <<111, 110, 101>>,
    <<>>,
    <<97, 34, 98>>,
    <<60>>,
    <<10>>,
    <<195, 169>>,
    <<255>>}
CodecValues == {<<>>} \cup {<<s>> : s \in CodecStrings}

\* Timestamps, in decimal: small ones, time.Now().UnixNano() of the examples,
\* and those around 2^53 and at the ends of int64.
CodecTimestamps == {ParseInt64(text) : text \in {
    <<48>>,
    <<49>>,
    <<50>>,
    <<45, 49>>,
    <<49, 52, 56, 51, 51, 50, 54, 50, 52, 53, 48, 48, 48, 48, 48, 48, 48, 48, 48>>,
    <<49, 52, 56, 51, 51, 50, 54, 50, 52, 53, 48, 48, 48, 48, 48, 48, 48, 48, 54>>,
    <<57, 48, 48, 55, 49, 57, 57, 50, 53, 52, 55, 52, 48, 57, 57, 50>>,
    <<57, 48, 48, 55, 49, 57, 57, 50, 53, 52, 55, 52, 48, 57, 57, 51>>,
    <<45, 57, 48, 48, 55, 49, 57, 57, 50, 53, 52, 55, 52, 48, 57, 57, 51>>,
    <<57, 50, 50, 51, 51, 55, 50, 48, 51, 54, 56, 53, 52, 55, 55, 53, 56, 48, 55>>,
    <<45, 57, 50, 50, 51, 51, 55, 50, 48, 51, 54, 56, 53, 52, 55, 55, 53, 56, 48, 56>>}}

Entries == {ValueTimestamp(value, timestamp) :
                value \in CodecValues, timestamp \in CodecTimestamps}

\* &kvt.ValueTimestamp{}, and one that holds something.
Receivers == {ValueTimestamp(<<>>, Int64(FALSE, BigZero)),
              ValueTimestamp(<<two>>, ParseInt64(<<53>>))}

\* The texts the examples and the tests decode.
ExampleTexts == {
    <<91, 34, 111, 110, 101, 34, 44, 49, 93>>,
    <<91, 110, 117, 108, 108, 44, 50, 93>>,
    <<107, 115, 106, 100, 102, 108, 107, 115, 106, 100, 102, 59, 108, 115, 100, 107, 106, 102, 59>>,
    <<91, 49, 44, 50, 44, 51, 93>>,
    <<91, 49, 44, 50, 93>>,
    <<91, 34, 111, 110, 101, 34, 44, 34, 116, 119, 111, 34, 93>>,
    <<91, 34, 111, 110, 101, 34, 44, 50, 46, 49, 93>>}

\* More texts: null, numbers written with a fraction or an exponent, numbers
\* at and beyond the precision of float64 and the range of int64, an object
\* for the value, and text after the array.
Texts == ExampleTexts \cup {
    <<110, 117, 108, 108>>,
    <<91, 110, 117, 108, 108, 44, 45, 49, 93>>,
    <<91, 34, 111, 110, 101, 34, 44, 50, 46, 48, 93>>,
    <<91, 110, 117, 108, 108, 44, 49, 101, 50, 93>>,
    <<91, 110, 117, 108, 108, 44, 49, 46, 48, 48, 48, 48, 48, 48, 48, 48, 48, 48, 48, 48, 48, 48, 48, 48, 48, 48, 48, 49, 93>>,
    <<91, 110, 117, 108, 108, 44, 57, 48, 48, 55, 49, 57, 57, 50, 53, 52, 55, 52, 48, 57, 57, 51, 93>>,
    <<91, 110, 117, 108, 108, 44, 49, 52, 56, 51, 51, 50, 54, 50, 52, 53, 48, 48, 48, 48, 48, 48, 48, 48, 54, 93>>,
    <<91, 110, 117, 108, 108, 44, 57, 50, 50, 51, 51, 55, 50, 48, 51, 54, 56, 53, 52, 55, 55, 53, 56, 48, 55, 93>>,
    <<91, 110, 117, 108, 108, 44, 57, 50, 50, 51, 51, 55, 50, 48, 51, 54, 56, 53, 52, 55, 55, 53, 56, 48, 56, 93>>,
    <<91, 123, 125, 44, 50, 93>>,
    <<91, 110, 117, 108, 108, 44, 50, 93, 32, 120>>}

InitCodec ==
    /\ NewStores
    /\ entry \in Entries
    /\ json = <<>>
    /\ vt \in Receivers
    /\ err = <<>>
    /\ pc = "start"
    /\ NoHistory
    /\ NoCalls

\* json, err := entry.MarshalJSON()
CallMarshalJSON ==
    /\ pc = "start"
    /\ json' = MarshalJSON(entry)
    /\ pc' = "marshaled"
    /\ UNCHANGED <<entry, vt, err, stores, history, calls>>

\* err := vt.UnmarshalJSON(json) on the text MarshalJSON returned.
CallUnmarshalJSON ==
    /\ pc = "marshaled"
    /\ \E saturates \in BOOLEAN :
          LET r == UnmarshalJSON(vt, json, saturates) IN
          vt' = r.valueTimestamp /\ err' = r.err
    /\ pc' = "roundtrip"
    /\ UNCHANGED <<entry, json, stores, history, calls>>

\* err := vt.UnmarshalJSON([]byte(text))
CallUnmarshalJSONText ==
    /\ pc = "start"
    /\ \E text \in Texts, saturates \in BOOLEAN :
          LET r == UnmarshalJSON(vt, text, saturates) IN
          json' = text /\ vt' = r.valueTimestamp /\ err' = r.err
    /\ pc' = "decoded"
    /\ UNCHANGED <<entry, stores, history, calls>>

NextCodec ==
    \/ CallMarshalJSON
    \/ CallUnmarshalJSON
    \/ CallUnmarshalJSONText

SpecCodec == InitCodec /\ [][NextCodec]_vars

-----------------------------------------------------------------------------
(* The claims.  Each is stated of the operations applied to a reachable      *)
(* state Cur, for every argument of the model.                               *)

\* A timestamped write: SetTimestamped when w has a value, DeleteTimestamped
\* when it has none.
Writes == {ValueTimestamp(<<v>>, t) : v \in Values, t \in Timestamps}
              \cup {ValueTimestamp(<<>>, t) : t \in Timestamps}
Write(st, s, key, w) ==
    IF w.Value = <<>>
    THEN DeleteTimestamped(st, s, key, w.Timestamp)
    ELSE SetTimestamped(st, s, key, w.Value[1], w.Timestamp)

MaxOf(a, b) == IF a < b THEN b ELSE a

\* C1: after s.Absorb(s2) the keys of s are those of s and s2 before; a key
\* only s2 had, or that s had with a strictly smaller timestamp than s2,
\* holds s2's value-or-tombstone and timestamp; every other key of s is
\* unchanged; so each key carries the larger of the two timestamps.
C1_AbsorbTakesNewer ==
    \A s \in StoreNames, s2 \in StoreNames :
        LET r == Contents(Cur, s)
            d == Contents(Cur, s2)
            r2 == Contents(Absorb(Cur, s, s2), s) IN
        /\ DOMAIN r2 = (DOMAIN r) \cup (DOMAIN d)
        /\ \A k \in DOMAIN r2 :
              /\ IF k \notin DOMAIN r THEN r2[k] = d[k]
                 ELSE IF k \notin DOMAIN d THEN r2[k] = r[k]
                 ELSE IF r[k].Timestamp < d[k].Timestamp THEN r2[k] = d[k]
                 ELSE r2[k] = r[k]
              /\ k \in DOMAIN r /\ k \in DOMAIN d =>
                    r2[k].Timestamp = MaxOf(r[k].Timestamp, d[k].Timestamp)

\* C1's case: an Absorb that takes a strictly newer entry from store2 for one
\* key and keeps its own, different, entry of the same timestamp for another.
C1_Witness ==
    \E s \in StoreNames, s2 \in StoreNames, k1 \in Keys, k2 \in Keys :
        LET r == Contents(Cur, s)
            d == Contents(Cur, s2)
            r2 == Contents(Absorb(Cur, s, s2), s) IN
        /\ {k1, k2} \subseteq (DOMAIN r) \cap (DOMAIN d)
        /\ r[k1].Timestamp < d[k1].Timestamp
        /\ r[k2].Timestamp = d[k2].Timestamp /\ r[k2] # d[k2]
        /\ r2[k1] = d[k1] /\ r2[k1] # r[k1]
        /\ r2[k2] = r[k2]

\* C2: two writes to a key with timestamps t1 < t2 leave the same entry for
\* the key in either order; it is the entry of the write with t2 when the key
\* was absent or had a timestamp below t2, and then Get returns the value
\* set, or "" after a delete.
C2_WriteOrder ==
    \A s \in StoreNames, key \in Keys :
        LET first == [w \in Writes |-> Write(Cur, s, key, w)] IN
        \A w1 \in Writes, w2 \in Writes :
            w1.Timestamp < w2.Timestamp =>
                LET a == Write(first[w1], s, key, w2)
                    b == Write(first[w2], s, key, w1) IN
                /\ EntryAt(a, s, key) = EntryAt(b, s, key)
                /\ (key \notin DOMAIN store[s]
                       \/ heap[store[s][key]].Timestamp < w2.Timestamp) =>
                      /\ EntryAt(a, s, key) = w2
                      /\ Get(a, s, key).ret = (IF w2.Value = <<>> THEN <<>> ELSE w2.Value[1])
                      /\ Get(b, s, key).ret = Get(a, s, key).ret

\* C2's case: a key with a live value, then a set and a newer delete, both
\* newer than the value: in either order the key ends deleted.
C2_Witness ==
    \E s \in StoreNames, key \in Keys, w1 \in Writes, w2 \in Writes :
        /\ key \in DOMAIN store[s]
        /\ heap[store[s][key]].Value # <<>>
        /\ heap[store[s][key]].Timestamp < w1.Timestamp
        /\ w1.Timestamp < w2.Timestamp
        /\ w1.Value # <<>> /\ w2.Value = <<>>
        /\ EntryAt(Write(Write(Cur, s, key, w2), s, key, w1), s, key) = w2
        /\ EntryAt(Write(Cur, s, key, w1), s, key) = w1

\* C3: a write to a key that is present with a timestamp greater than or
\* equal to the write's changes nothing: every store has the same keys,
\* values and timestamps after it as before.
C3_OldWriteDiscarded ==
    \A s \in StoreNames : \A key \in DOMAIN store[s], w \in Writes :
        w.Timestamp <= heap[store[s][key]].Timestamp =>
            \A s2 \in StoreNames :
                Contents(Write(Cur, s, key, w), s2) = Contents(Cur, s2)

\* C3's case: a key holding a value, and a delete and a set of another value
\* with exactly its timestamp.
C3_Witness ==
    \E s \in StoreNames : \E key \in DOMAIN store[s], w \in Writes :
        /\ heap[store[s][key]].Value # <<>>
        /\ w.Timestamp = heap[store[s][key]].Timestamp
        /\ w.Value # <<>> /\ w # heap[store[s][key]]
        /\ Contents(Write(Cur, s, key, w), s) = Contents(Cur, s)
        /\ Contents(DeleteTimestamped(Cur, s, key, w.Timestamp), s) = Contents(Cur, s)

\* C4 as stated: after two stores exchange snapshots they hold the same keys
\* and, for every key, the same value-or-tombstone and timestamp.
C4_ExchangeConvergesFully ==
    \A a \in StoreNames, b \in StoreNames :
        LET st2 == Exchange(Cur, a, b) IN
        Contents(st2, a) = Contents(st2, b)

\* C4 as amended: after two stores exchange snapshots they hold the same keys
\* and, for every key, the same timestamp; and the same value-or-tombstone,
\* but for the keys both held before with equal timestamps, for which each
\* keeps the entry it had.
C4_ExchangeConverges ==
    \A a \in StoreNames, b \in StoreNames :
        LET st2 == Exchange(Cur, a, b)
            a1 == Contents(Cur, a)
            b1 == Contents(Cur, b)
            a2 == Contents(st2, a)
            b2 == Contents(st2, b) IN
        /\ DOMAIN a2 = DOMAIN b2
        /\ \A k \in DOMAIN a2 :
              /\ a2[k].Timestamp = b2[k].Timestamp
              /\ IF k \in DOMAIN a1 /\ k \in DOMAIN b1
                       /\ a1[k].Timestamp = b1[k].Timestamp
                 THEN a2[k] = a1[k] /\ b2[k] = b1[k]
                 ELSE a2[k] = b2[k]

\* C4's case: two stores that differ, one holding a key the other lacks and
\* the other a newer entry for a second key, hold the same after the exchange.
C4_Witness ==
    \E a \in StoreNames, b \in StoreNames, k1 \in Keys, k2 \in Keys :
        LET st2 == Exchange(Cur, a, b) IN
        /\ k1 \in DOMAIN store[a] /\ k1 \notin DOMAIN store[b]
        /\ k2 \in DOMAIN store[a] /\ k2 \in DOMAIN store[b]
        /\ EntryAt(Cur, a, k2).Timestamp < EntryAt(Cur, b, k2).Timestamp
        /\ Contents(st2, a) = Contents(st2, b)
        /\ Contents(st2, a) # Contents(Cur, a)
        /\ Contents(st2, b) # Contents(Cur, b)

\* C5: s.Absorb(s2) leaves s with the keys, values, timestamps and Hash that
\* writing each entry of s2 to s with SetTimestamped or DeleteTimestamped
\* leaves, in any order of the keys of s2.
C5_AbsorbAsWrites ==
    \A s \in StoreNames, s2 \in StoreNames :
        LET absorbed == Absorb(Cur, s, s2)
            hashes == {Hash(absorbed, s, ks2) : ks2 \in RangeOrders(absorbed.store[s])} IN
        \A ks \in RangeOrders(store[s2]) :
            LET written == ApplyEntries(Cur, s, s2, ks) IN
            /\ Contents(written, s) = Contents(absorbed, s)
            /\ \A ks1 \in RangeOrders(written.store[s]) :
                  hashes = {Hash(written, s, ks1)}

\* C5's case: store2 holds a newer tombstone for a key of the store and, for
\* another key, a different value of the same timestamp: Absorb and the
\* writes take the first and not the second.
C5_Witness ==
    \E s \in StoreNames, s2 \in StoreNames, k1 \in Keys, k2 \in Keys :
        \E ks \in RangeOrders(store[s2]) :
            LET written == ApplyEntries(Cur, s, s2, ks) IN
            /\ {k1, k2} \subseteq (DOMAIN store[s]) \cap (DOMAIN store[s2])
            /\ EntryAt(Cur, s2, k1).Value = <<>>
            /\ EntryAt(Cur, s, k1).Timestamp < EntryAt(Cur, s2, k1).Timestamp
            /\ EntryAt(Cur, s, k2).Timestamp = EntryAt(Cur, s2, k2).Timestamp
            /\ EntryAt(Cur, s, k2) # EntryAt(Cur, s2, k2)
            /\ EntryAt(written, s, k1) = EntryAt(Cur, s2, k1)
            /\ EntryAt(written, s, k2) = EntryAt(Cur, s, k2)
            /\ Contents(written, s) = Contents(Absorb(Cur, s, s2), s)

\* C6: a second s.Absorb(s2) changes nothing: every store holds after it what
\* it held after the first.
C6_AbsorbIdempotent ==
    \A s \in StoreNames, s2 \in StoreNames :
        LET once == Absorb(Cur, s, s2)
            twice == Absorb(once, s, s2) IN
        \A x \in StoreNames : Contents(twice, x) = Contents(once, x)

\* C6's case: an Absorb that changes the store and leaves it sharing an
\* object with store2, followed by a second Absorb.
C6_Witness ==
    \E s \in StoreNames, s2 \in StoreNames, k \in Keys :
        LET once == Absorb(Cur, s, s2)
            twice == Absorb(once, s, s2) IN
        /\ s # s2
        /\ k \in DOMAIN store[s] /\ k \in DOMAIN store[s2]
        /\ store[s][k] # store[s2][k]
        /\ Contents(once, s) # Contents(Cur, s)
        /\ once.store[s][k] = once.store[s2][k]
        /\ Contents(twice, s) = Contents(once, s)

\* C7: Purge(cutoff) removes exactly the keys whose entry is a tombstone with
\* a timestamp strictly less than cutoff; every other key stays, with its
\* value and timestamp.
C7_PurgeExact ==
    \A s \in StoreNames, cutoff \in Cutoffs :
        LET before == Contents(Cur, s)
            after == Contents(Purge(Cur, s, cutoff), s) IN
        /\ DOMAIN after =
              {k \in DOMAIN before :
                  ~(before[k].Value = <<>> /\ before[k].Timestamp < cutoff)}
        /\ \A k \in DOMAIN after : after[k] = before[k]

\* C7's case: a Purge that removes a tombstone older than the cutoff and
\* keeps one whose timestamp is the cutoff.
C7_Witness ==
    \E s \in StoreNames, cutoff \in Cutoffs, k1 \in Keys, k2 \in Keys :
        LET after == Contents(Purge(Cur, s, cutoff), s) IN
        /\ {k1, k2} \subseteq DOMAIN store[s]
        /\ EntryAt(Cur, s, k1) = ValueTimestamp(<<>>, cutoff - 1)
        /\ EntryAt(Cur, s, k2) = ValueTimestamp(<<>>, cutoff)
        /\ DOMAIN after = {k2}

\* C7's other case: a Purge that keeps a live entry older than the cutoff.
C7_WitnessLive ==
    \E s \in StoreNames, cutoff \in Cutoffs, k \in Keys :
        /\ k \in DOMAIN store[s]
        /\ EntryAt(Cur, s, k).Value # <<>>
        /\ EntryAt(Cur, s, k).Timestamp < cutoff
        /\ k \in DOMAIN Contents(Purge(Cur, s, cutoff), s)

\* C8: Get returns the value of a key that is present with a live entry, and
\* "" for a key that is absent or deleted; it leaves every store and object as
\* it was.
C8_Get ==
    \A s \in StoreNames, key \in Keys :
        LET got == Get(Cur, s, key) IN
        /\ got.ret = (IF key \in DOMAIN store[s] /\ EntryAt(Cur, s, key).Value # <<>>
                      THEN EntryAt(Cur, s, key).Value[1]
                      ELSE <<>>)
        /\ got.st = Cur

\* C8's case: a store with a live key, a deleted key, and a store that lacks
\* a key: Get returns the value, "" and "".
C8_Witness ==
    \E s \in StoreNames, s2 \in StoreNames, k1 \in Keys, k2 \in Keys :
        /\ {k1, k2} \subseteq DOMAIN store[s]
        /\ k1 \notin DOMAIN store[s2]
        /\ EntryAt(Cur, s, k1).Value = <<one>>
        /\ EntryAt(Cur, s, k2).Value = <<>>
        /\ Get(Cur, s, k1).ret = one
        /\ Get(Cur, s, k2).ret = <<>>
        /\ Get(Cur, s2, k1).ret = <<>>

\* C9: two stores with the same keys and the same timestamp for each key have
\* the same Hash, whatever their values and whatever the order in which the
\* maps yield their keys.
C9_HashOfKeyTimestamps ==
    \A s \in StoreNames, s2 \in StoreNames :
        KeyTimestamps(Cur, s) = KeyTimestamps(Cur, s2) =>
            \A ks \in RangeOrders(store[s]), ks2 \in RangeOrders(store[s2]) :
                Hash(Cur, s, ks) = Hash(Cur, s2, ks2)

\* C9's case: two stores of two keys with the same timestamps, a value in one
\* where the other has another value and a tombstone, whose maps yield the
\* keys in different orders.
C9_Witness ==
    \E s \in StoreNames, s2 \in StoreNames :
        \E ks \in RangeOrders(store[s]), ks2 \in RangeOrders(store[s2]) :
            /\ DOMAIN store[s] = Keys
            /\ KeyTimestamps(Cur, s) = KeyTimestamps(Cur, s2)
            /\ \A k \in Keys : EntryAt(Cur, s, k).Value # EntryAt(Cur, s2, k).Value
            /\ \E k \in Keys : EntryAt(Cur, s2, k).Value = <<>>
            /\ ks # ks2
            /\ Hash(Cur, s, ks) = Hash(Cur, s2, ks2)

\* C10: an entry that was encoded and decoded again comes back without an
\* error, with the same value (or none) and the same timestamp.
C10_RoundTrip ==
    pc = "roundtrip" => err = <<>> /\ vt = entry

\* What C11 asks of a text for it to decode: an array of two elements, the
\* first null or a string, the second a number whose fraction is zero.
Decodable(v) ==
    /\ v.ok
    /\ v.val.kind = "slice"
    /\ Len(v.val.data) = 2
    /\ v.val.data[1].kind \in {"nil", "string"}
    /\ v.val.data[2].kind = "float64"
    /\ AllZeros(v.val.data[2].data.numeral.frac)

\* The integer a numeral without a fraction stands for.
NumeralInt(numeral) == Int64(numeral.neg, BigOfDigits(StripZeros(numeral.int), BigZero))

\* C11: UnmarshalJSON returns an error exactly for the texts that are not
\* decodable in the sense above, and for every other text leaves the first
\* element as the value (none for null) and the second as the timestamp.
C11_DecodeErrors ==
    pc = "decoded" =>
        LET v == ParseJSON(json) IN
        /\ err # <<>> <=> ~Decodable(v)
        /\ Decodable(v) =>
              /\ vt.Value = (IF v.val.data[1].kind = "nil" THEN <<>>
                             ELSE <<v.val.data[1].data>>)
              /\ vt.Timestamp = NumeralInt(v.val.data[2].data.numeral)

\* C11 on the texts of the examples and the tests only.
C11_OnExampleTexts ==
    json \in ExampleTexts => C11_DecodeErrors

\* C12: a call of UnmarshalJSON that returns an error leaves the
\* ValueTimestamp it was called on with the value and the timestamp it had
\* before the call.
C12_AllOrNothing ==
    [][(pc' \in {"decoded", "roundtrip"} /\ err' # <<>>) =>
           (vt'.Value = vt.Value /\ vt'.Timestamp = vt.Timestamp)]_vars

\* Whether every key of every store of st is still there in st2, with the same
\* entry or with a strictly larger timestamp.
Monotone(st, st2) ==
    \A x \in StoreNames : \A k \in DOMAIN st.store[x] :
        /\ k \in DOMAIN st2.store[x]
        /\ \/ EntryAt(st2, x, k) = EntryAt(st, x, k)
           \/ EntryAt(st, x, k).Timestamp < EntryAt(st2, x, k).Timestamp

\* C13: SetTimestamped, DeleteTimestamped and Absorb (and Get) leave every key
\* that was present, in the store called on and in every other store, with
\* the same value-or-tombstone and timestamp or with a strictly larger
\* timestamp, and remove no key.
C13_PerKeyMonotone ==
    \A s \in StoreNames :
        /\ \A key \in Keys, w \in Writes : Monotone(Cur, Write(Cur, s, key, w))
        /\ \A s2 \in StoreNames : Monotone(Cur, Absorb(Cur, s, s2))
        /\ \A key \in Keys : Monotone(Cur, Get(Cur, s, key).st)

\* C13's case: a write that turns a live key into a tombstone, or a
\* tombstone into a live key, with a larger timestamp, while an older write of
\* another value to the same key changes nothing; and an Absorb that replaces
\* an entry by a newer one.
C13_Witness ==
    \E s \in StoreNames : \E key \in DOMAIN store[s], w \in Writes, old \in Writes :
        /\ (w.Value = <<>>) # (EntryAt(Cur, s, key).Value = <<>>)
        /\ EntryAt(Cur, s, key).Timestamp < w.Timestamp
        /\ EntryAt(Write(Cur, s, key, w), s, key) = w
        /\ old.Timestamp <= EntryAt(Cur, s, key).Timestamp
        /\ old.Value # EntryAt(Cur, s, key).Value
        /\ EntryAt(Write(Cur, s, key, old), s, key) = EntryAt(Cur, s, key)
        /\ \E s2 \in StoreNames :
              /\ key \in DOMAIN store[s2]
              /\ EntryAt(Cur, s2, key).Timestamp < EntryAt(Cur, s, key).Timestamp
              /\ EntryAt(Absorb(Cur, s2, s), s2, key) = EntryAt(Cur, s, key)

\* C14 as stated: a SetTimestamped, DeleteTimestamped or Purge call on store s
\* leaves the keys, values and timestamps of every other store as they were,
\* whatever Absorb calls came before.
C14_OtherStoresUnchanged ==
    \A s \in StoreNames : \A x \in StoreNames \ {s} :
        /\ \A key \in Keys, w \in Writes :
              Contents(Write(Cur, s, key, w), x) = Contents(Cur, x)
        /\ \A cutoff \in Cutoffs :
              Contents(Purge(Cur, s, cutoff), x) = Contents(Cur, x)

\* C14, amended: the call leaves the key set of every other store as it was,
\* and the value and timestamp of each of its keys too, except a key whose
\* ValueTimestamp object is the one store s holds for the key written (the
\* two stores share it since an Absorb); Purge changes no other store.
C14_UnsharedUnchanged ==
    \A s \in StoreNames : \A x \in StoreNames \ {s} :
        /\ \A key \in Keys, w \in Writes :
              LET st2 == Write(Cur, s, key, w) IN
              /\ DOMAIN st2.store[x] = DOMAIN store[x]
              /\ \A k \in DOMAIN store[x] :
                    \/ store[x][k] = Lookup(Cur, s, key)
                    \/ EntryAt(st2, x, k) = EntryAt(Cur, x, k)
        /\ \A cutoff \in Cutoffs :
              Contents(Purge(Cur, s, cutoff), x) = Contents(Cur, x)

\* C14's case: two stores share the object of one key since an Absorb and
\* hold another key each with an object of its own; a newer write to either
\* key is accepted by store s, and a Purge of store s removes a tombstone
\* that the other store holds too.
C14_Witness ==
    \E s \in StoreNames, x \in StoreNames, key \in Keys, k \in Keys, w \in Writes :
        /\ s # x /\ key # k
        /\ {key, k} \subseteq DOMAIN store[s] \cap DOMAIN store[x]
        /\ store[s][key] = store[x][key]
        /\ store[s][k] # store[x][k]
        /\ EntryAt(Cur, s, key).Timestamp < w.Timestamp
        /\ EntryAt(Cur, s, k).Timestamp < w.Timestamp
        /\ EntryAt(Write(Cur, s, key, w), s, key) = w
        /\ EntryAt(Write(Cur, s, k, w), s, k) = w
        /\ EntryAt(Write(Cur, s, k, w), x, k) # w
        /\ \E cutoff \in Cutoffs :
              /\ key \notin DOMAIN Purge(Cur, s, cutoff).store[s]
              /\ key \in DOMAIN Purge(Cur, s, cutoff).store[x]

\* Whether the ValueTimestamp objects that some store of st refers to, and
\* some store of st2 still refers to, hold in st2 what they held in st.
SameObjects(st, st2) ==
    \A a \in RefsOf(st) \cap RefsOf(st2) : st2.heap[a] = st.heap[a]

\* C15 as stated: no SetTimestamped, DeleteTimestamped, Purge or Absorb call
\* changes the value or timestamp of a ValueTimestamp object that exists, and
\* a write that changes a key the store has makes the key point to another
\* object.
C15_EntriesImmutable ==
    \A s \in StoreNames :
        /\ \A key \in Keys, w \in Writes :
              LET st2 == Write(Cur, s, key, w) IN
              /\ SameObjects(Cur, st2)
              /\ (key \in DOMAIN store[s] /\ EntryAt(st2, s, key) # EntryAt(Cur, s, key))
                    => st2.store[s][key] # store[s][key]
        /\ \A cutoff \in Cutoffs : SameObjects(Cur, Purge(Cur, s, cutoff))
        /\ \A s2 \in StoreNames : SameObjects(Cur, Absorb(Cur, s, s2))

\* C15, amended: a write to a key the store has leaves every key pointing to
\* the object it pointed to; when the write's timestamp is strictly larger it
\* overwrites the value and timestamp of the key's object in place, otherwise
\* it changes no object; a write to a key the store lacks makes a new object
\* and changes no other; Purge and Absorb change no object.
C15_WritesInPlace ==
    \A s \in StoreNames :
        /\ \A key \in Keys, w \in Writes :
              LET st2 == Write(Cur, s, key, w)
                  a == Lookup(Cur, s, key) IN
              IF a = NilAddr
              THEN /\ st2.store[s][key] \notin RefsOf(Cur)
                   /\ EntryAt(st2, s, key) = w
                   /\ SameObjects(Cur, st2)
              ELSE /\ st2.store = store
                   /\ \A c \in Addrs \ {a} : st2.heap[c] = heap[c]
                   /\ st2.heap[a] = (IF heap[a].Timestamp < w.Timestamp THEN w ELSE heap[a])
        /\ \A cutoff \in Cutoffs : SameObjects(Cur, Purge(Cur, s, cutoff))
        /\ \A s2 \in StoreNames : SameObjects(Cur, Absorb(Cur, s, s2))

\* C15's case: a store has a key, with an object of its own or one it shares
\* with another store, and a write with a larger timestamp changes the key.
C15_Witness ==
    \E s \in StoreNames, x \in StoreNames, key \in Keys, k \in Keys, w \in Writes :
        /\ s # x /\ key # k
        /\ {key, k} \subseteq DOMAIN store[s] \cap DOMAIN store[x]
        /\ store[s][key] = store[x][key]
        /\ store[s][k] # store[x][k]
        /\ w.Value # <<>>
        /\ EntryAt(Cur, s, key).Timestamp < w.Timestamp
        /\ EntryAt(Cur, s, k).Timestamp < w.Timestamp
        /\ Write(Cur, s, key, w).heap[store[s][key]] = w
        /\ Write(Cur, s, k, w).heap[store[s][k]] = w

\* C16 as stated: once store s has accepted DeleteTimestamped(key, t), Get(key)
\* on s never returns a value whose timestamp is less than t, whatever
\* SetTimestamped, DeleteTimestamped, Absorb and Purge calls came after.
C16_DeleteNeverUndone ==
    \A s \in LoggedStores, key \in LoggedKeys :
        (deleted[s][key] >= 0 /\ Get(Cur, s, key).ret # <<>>)
            => EntryAt(Cur, s, key).Timestamp >= deleted[s][key]

\* C16, amended: once store s has accepted DeleteTimestamped(key, t), and as
\* long as no Purge has removed the key from s since, s has the key with a
\* timestamp of t or more, so Get(key) returns nil or a value whose timestamp
\* is t or more.
C16_DeleteKeptUntilPurge ==
    \A s \in LoggedStores, key \in LoggedKeys :
        marked[s][key] >= 0 =>
            /\ key \in DOMAIN store[s]
            /\ EntryAt(Cur, s, key).Timestamp >= marked[s][key]

\* C16's case: a store has accepted a deletion of a key, no Purge has removed
\* the key since, Get returns a value written after the deletion, and
\* an older write and an Absorb of an older entry leave that value.
C16_Witness ==
    \E s \in LoggedStores, s2 \in StoreNames, key \in LoggedKeys, w \in Writes :
        /\ marked[s][key] >= 0
        /\ Get(Cur, s, key).ret # <<>>
        /\ EntryAt(Cur, s, key).Timestamp > marked[s][key]
        /\ w.Timestamp < marked[s][key]
        /\ Write(Cur, s, key, w) = Cur
        /\ key \in DOMAIN store[s2]
        /\ EntryAt(Cur, s2, key).Timestamp < marked[s][key]
        /\ EntryAt(Absorb(Cur, s, s2), s, key) = EntryAt(Cur, s, key)

\* C17: when two stores have the same set of (key, timestamp) pairs, the case
\* in which their hashes are equal by C9, Absorb of either into the other
\* leaves the keys, values and timestamps of the receiver as
\* they were.
C17_AbsorbOfEqualChangesNothing ==
    \A s \in StoreNames, s2 \in StoreNames :
        KeyTimestamps(Cur, s) = KeyTimestamps(Cur, s2) =>
            Contents(Absorb(Cur, s, s2), s) = Contents(Cur, s)

\* C17's case: two stores with the same keys and timestamps, each key in an
\* object of its own, one key with another value in the one store than in the
\* other.
C17_Witness ==
    \E s \in StoreNames, s2 \in StoreNames :
        /\ KeyTimestamps(Cur, s) = KeyTimestamps(Cur, s2)
        /\ DOMAIN store[s] = Keys
        /\ \A k \in Keys : store[s][k] # store[s2][k]
        /\ Contents(Cur, s) # Contents(Cur, s2)
        /\ Contents(Absorb(Cur, s, s2), s) = Contents(Cur, s)

\* ks sorted: what sort.Strings makes of the keys that range store yields.
SortedKeys(m) == SortStrings(CHOOSE ks \in RangeOrders(m) : TRUE)

\* C18: two stores whose sets of (key, timestamp) pairs differ have Hash write
\* different bytes to the hasher, whatever strings the keys are.
C18_FeedIdentifiesSet ==
    \A s \in StoreNames, s2 \in StoreNames :
        KeyTimestamps(Cur, s) # KeyTimestamps(Cur, s2) =>
            HashFeed(Cur, s, SortedKeys(store[s])) # HashFeed(Cur, s2, SortedKeys(store[s2]))

\* Both calls have returned.
RaceDone == \A p \in Goroutines : calls[p].pc = "done"

\* The one call began after the other had returned.
RaceSerial == \A p \in Goroutines : calls[p].alone

\* The last write won: the key holds an entry as it was written, and no call
\* had a larger timestamp.
RaceLastWriteWins ==
    /\ RaceKey \in DOMAIN store[RaceStore]
    /\ EntryAt(Cur, RaceStore, RaceKey) \in {calls[p].w : p \in Goroutines} \cup {RaceEntry}
    /\ \A p \in Goroutines :
          calls[p].w.Timestamp <= EntryAt(Cur, RaceStore, RaceKey).Timestamp

\* C19: two calls without a lock, run one after the other, leave the key with
\* the last write; the outcome is another only when the calls overlap, and
\* then (C19_Witness) the key can end with the entry of the write with the
\* lower timestamp, or with the value of one call and the timestamp of the
\* other.
C19_SerialCallsKeepLastWrite ==
    (RaceDone /\ RaceSerial) => RaceLastWriteWins

\* C19's case: both calls have returned, they overlapped, and the key holds
\* the entry of the call with the lower timestamp.
C19_Witness ==
    \E p \in Goroutines, q \in Goroutines :
        /\ RaceDone
        /\ ~RaceSerial
        /\ calls[p].w.Timestamp < calls[q].w.Timestamp
        /\ calls[p].w.Value # calls[q].w.Value
        /\ EntryAt(Cur, RaceStore, RaceKey) = calls[p].w

\* The other outcome of C19: the value of one call with the timestamp of the
\* other.
C19_WitnessMixed ==
    \E p \in Goroutines, q \in Goroutines :
        /\ RaceDone
        /\ calls[p].w.Timestamp < calls[q].w.Timestamp
        /\ calls[p].w.Value # calls[q].w.Value
        /\ EntryAt(Cur, RaceStore, RaceKey) =
               ValueTimestamp(calls[p].w.Value, calls[q].w.Timestamp)

\* C20: in every store reached from empty stores, every key present points
\* to a ValueTimestamp (never nil) that holds a value or none, and a
\* timestamp.  (Set and Delete are SetTimestamped and DeleteTimestamped with
\* the timestamp of the clock.)
C20_EveryKeyHasEntry ==
    \A s \in StoreNames : \A k \in DOMAIN store[s] :
        /\ store[s][k] # NilAddr
        /\ store[s][k] \in Addrs
        /\ heap[store[s][k]].Value \in {<<>>} \cup {<<v>> : v \in Values}
        /\ heap[store[s][k]].Timestamp \in Timestamps

\* C20's case: after writes, deletions, an Absorb and a Purge, a store holds a
\* value for one key and a tombstone for the other, one of them in an object
\* it shares with the other store, which lacks the other key.
C20_Witness ==
    \E s \in StoreNames, s2 \in StoreNames, k \in Keys, k2 \in Keys :
        /\ s # s2
        /\ DOMAIN store[s] = Keys
        /\ DOMAIN store[s2] = {k}
        /\ store[s][k] = store[s2][k]
        /\ EntryAt(Cur, s, k).Value # <<>>
        /\ EntryAt(Cur, s, k).Timestamp > 0
        /\ k2 # k
        /\ EntryAt(Cur, s, k2).Value = <<>>

====
